---- MODULE Spec2Model ----
(***************************************************************************)
(* Model of the decision agent of Video_Chatllm (src/core/decision_agent.py)*)
(* and of the batch branch of execute_task (src/app.py), with the intent    *)
(* endpoint of src/app.py, the error handler (src/core/error_handler.py)    *)
(* and the memory manager (src/core/memory_manager.py).                     *)
(*                                                                         *)
(* Text.  A Python str is a sequence of characters; every character is a   *)
(* TLA+ string that names it.  ASCII letters, digits and punctuation name   *)
(* themselves ("v", "V", "4"); the others are named as follows.            *)
(*   "sp" U+0020 space        "nl" U+000A line feed                        *)
(*   "colon" U+FF1A fullwidth colon                                        *)
(*   "chang" U+5834  "jing" U+666F   (scene)                               *)
(*   "yi" U+4E00 "er" U+4E8C "san" U+4E09 "si" U+56DB "wu" U+4E94          *)
(*   "liu" U+516D  (numerals one .. six)                                   *)
(*   "di" U+7B2C  "zhang" U+5F35  "ge" U+500B  "duo" U+591A                *)
(*   "sheng" U+751F "cheng" U+6210 (generate)  "tu" U+5716 "pian" U+7247   *)
(*   "hua" U+756B  "hui" U+7E6A "zhi4" U+88FD  "chuang" U+5275             *)
(*   "jian4" U+5EFA "xiang" U+50CF  "cha" U+63D2                           *)
(*   "xiu" U+4FEE "gai" U+6539 "zhuan" U+8F49 "huan" U+63DB "bian4" U+8B8A *)
(*   "tiao" U+8ABF "zheng" U+6574 "bian1" U+7DE8 "ji" U+8F2F               *)
(*   "shi" U+8996 "pin" U+983B "ying" U+5F71 "dong" U+52D5 "tai" U+614B    *)
(*   "shou" U+9996 "wei" U+5C3E "zhi2" U+503C "guo" U+904E "du" U+6E21     *)
(*   "zhong" U+4E2D "jian1" U+9593 "zhen" U+5E40                           *)
(*   "bang" U+5E6B "wo" U+6211 "qing" U+8ACB "zuo" U+4F5C                  *)
(*   "mao" U+8C93 (cat)  "gou" U+72D7 (dog)  "miao" U+79D2 (second)        *)
(*   "mul" U+00D7 multiplication sign                                      *)
(*   "zhen1" U+771F "shi2" U+5BE6 "xie" U+5BEB "man" U+6F2B "ka" U+5361    *)
(*   "tong" U+901A "yi4" U+85DD "shu" U+8853 "dian" U+96FB                 *)
(*                                                                         *)
(*   "shi_s" U+89C6 "pin_s" U+9891 "dong_s" U+52A8 "hua_s" U+753B          *)
(*   "zhuan_s" U+8F6C "huan_s" U+6362  (simplified forms)                  *)
(*                                                                         *)
(* Numbers.  A confidence is kept in tenths: 5 is 0.5 and 10 is 1.0.       *)
(***************************************************************************)
EXTENDS Integers, Sequences, FiniteSets, TLC

VARIABLES
  message,         \* the text of the request
  file_count,      \* the number of files uploaded with it
  pc,              \* how far the request has been processed
  result,          \* the dict returned by analyze_intent
  intent_data,     \* the dict handed to plan_execution
  execution_plan,  \* the list returned by plan_execution
  scored,          \* a task type and the confidence scored for it
  results,         \* the list results of execute_task's batch branch
  response,        \* the JSON answer of execute_task
  validation,      \* a task type and the dict returned by validate_input for it
  chat,            \* what gemini_engine.chat gave to /api/analyze_intent
  error_history,   \* ErrorHandler.error_history
  handled,         \* the error last handled and the dict handle_error returned
  strategy,        \* an error type and the dict get_retry_strategy gave for it
  conversations,   \* MemoryManager.memory["conversations"]
  memory_file,     \* the conversations last written to memory.json
  clock,           \* the add_conversation calls made since the manager started
  history          \* the arguments and the list of get_conversation_history

\* the request, the state of its processing and what was returned for it
request ==
  <<message, file_count, pc, result, intent_data, execution_plan, scored,
    results, response, validation, chat>>

\* the state of the error handler and what it last returned
handler == <<error_history, handled, strategy>>

\* the state of the memory manager and what it last returned
memory == <<conversations, memory_file, clock, history>>

vars ==
  <<message, file_count, pc, result, intent_data, execution_plan, scored,
    results, response, validation, chat, error_history, handled, strategy,
    conversations, memory_file, clock, history>>

-----------------------------------------------------------------------------
(* Bounds of the model.                                                     *)

\* most attachments of one request
MaxFiles == 3
\* most keyword fragments of one typed message
MaxFrags == 2
\* most labelled segments of one scene prompt whose labels are of one style
MaxSegs == 4
\* most labelled segments of one scene prompt whose labels mix the styles
MaxMixed == 2
\* most spaces between a number and the unit or separator that follows it
MaxGap == 2
\* most lines of a prompt without scene labels
MaxParas == 6
\* most labelled scenes of a prompt that holds more than four of them
MaxScenes == 6
\* most characters of a message that is validated, the spaces around it and
\* a scene label in it apart
MaxBody == 11
\* most errors handled by one error handler
MaxErrors == 2
\* most add_conversation calls made on one memory manager
MaxAppends == 3
\* the largest limit asked of get_conversation_history
MaxLimit == 2

-----------------------------------------------------------------------------
(* Python str operations.                                                   *)

\* str.lower() on one character
ToLower ==
  [A |-> "a", B |-> "b", C |-> "c", D |-> "d", E |-> "e", F |-> "f", G |-> "g",
   H |-> "h", I |-> "i", J |-> "j", K |-> "k", L |-> "l", M |-> "m", N |-> "n",
   O |-> "o", P |-> "p", Q |-> "q", R |-> "r", S |-> "s", T |-> "t", U |-> "u",
   V |-> "v", W |-> "w", X |-> "x", Y |-> "y", Z |-> "z"]

\* str.lower()
lower(s) ==
  [i \in 1..Len(s) |-> IF s[i] \in DOMAIN ToLower THEN ToLower[s[i]] ELSE s[i]]

\* s[i:].startswith(w), i counted from 1
StartsAt(s, w, i) ==
  /\ i + Len(w) - 1 <= Len(s)
  /\ \A k \in 1..Len(w) : s[i + k - 1] = w[k]

\* the operator  w in s  on two str
Contains(s, w) ==
  \E i \in 1..(Len(s) - Len(w) + 1) : StartsAt(s, w, i)

\* any(kw in s for kw in kws)
AnyIn(kws, s) ==
  \E k \in 1..Len(kws) : Contains(s, kws[k])

RECURSIVE ReplaceFrom(_, _, _)
\* s[i:].replace(w, ''): the occurrences are removed left to right
ReplaceFrom(s, w, i) ==
  IF i > Len(s) THEN <<>>
  ELSE IF StartsAt(s, w, i) THEN ReplaceFrom(s, w, i + Len(w))
  ELSE <<s[i]>> \o ReplaceFrom(s, w, i + 1)

\* str.replace(w, '')
replace(s, w) == ReplaceFrom(s, w, 1)

\* the characters str.strip() and str.split() take for white space
Whitespace == {"sp", "nl"}

RECURSIVE lstrip(_)
lstrip(s) ==
  IF s # <<>> /\ Head(s) \in Whitespace THEN lstrip(Tail(s)) ELSE s

RECURSIVE rstrip(_)
rstrip(s) ==
  IF s # <<>> /\ s[Len(s)] \in Whitespace
  THEN rstrip(SubSeq(s, 1, Len(s) - 1)) ELSE s

\* str.strip()
strip(s) == rstrip(lstrip(s))

RECURSIVE SplitOn(_, _, _)
\* the pieces of s between the characters of seps, the piece cur being open
SplitOn(s, seps, cur) ==
  IF s = <<>> THEN <<cur>>
  ELSE IF Head(s) \in seps THEN <<cur>> \o SplitOn(Tail(s), seps, <<>>)
  ELSE SplitOn(Tail(s), seps, Append(cur, Head(s)))

\* str.split(sep) for a one-character sep: empty pieces are kept
split_sep(s, sep) == SplitOn(s, {sep}, <<>>)

\* str.split(): split on runs of white space, no empty pieces
split(s) == SelectSeq(SplitOn(s, Whitespace, <<>>), LAMBDA p : p # <<>>)

RECURSIVE join(_, _)
\* sep.join(parts)
join(sep, parts) ==
  IF parts = <<>> THEN <<>>
  ELSE IF Len(parts) = 1 THEN parts[1]
  ELSE parts[1] \o sep \o join(sep, Tail(parts))

\* the smaller and the larger of two numbers
min(a, b) == IF a <= b THEN a ELSE b
max(a, b) == IF a >= b THEN a ELSE b

-----------------------------------------------------------------------------
(* TaskType and the keyword tables of DecisionAgent.__init__.               *)

TEXT_TO_IMAGE == "text_to_image"
IMAGE_TO_IMAGE == "image_to_image"
IMAGE_TO_VIDEO == "image_to_video"
TEXT_TO_VIDEO == "text_to_video"
FIRST_TO_LAST_FRAME == "first_to_last_frame"
MULTIMODAL == "multimodal"
BATCH_IMAGE_GENERATION == "batch_image_generation"

TaskType ==
  {TEXT_TO_IMAGE, IMAGE_TO_IMAGE, IMAGE_TO_VIDEO, TEXT_TO_VIDEO,
   FIRST_TO_LAST_FRAME, MULTIMODAL, BATCH_IMAGE_GENERATION}

\* self.keywords
keywords ==
  [image_gen |->
     << <<"sheng", "cheng", "tu", "pian">>, <<"hua">>, <<"hui", "zhi4">>,
        <<"chuang", "jian4", "tu", "xiang">>, <<"tu", "pian">>,
        <<"cha", "hua">>, <<"i", "m", "a", "g", "e">>,
        <<"p", "i", "c", "t", "u", "r", "e">>, <<"p", "h", "o", "t", "o">> >>,
   image_transform |->
     << <<"xiu", "gai">>, <<"zhuan", "huan">>, <<"gai", "bian4">>,
        <<"tiao", "zheng">>, <<"bian1", "ji">>,
        <<"t", "r", "a", "n", "s", "f", "o", "r", "m">>,
        <<"m", "o", "d", "i", "f", "y">>, <<"e", "d", "i", "t">>,
        <<"c", "h", "a", "n", "g", "e">> >>,
   video_gen |->
     << <<"shi", "pin">>, <<"ying", "pian">>, <<"dong", "hua">>,
        <<"dong", "tai">>, <<"v", "i", "d", "e", "o">>,
        <<"a", "n", "i", "m", "a", "t", "i", "o", "n">>,
        <<"m", "o", "t", "i", "o", "n">> >>,
   interpolation |->
     << <<"shou", "wei">>, <<"cha", "zhi2">>, <<"guo", "du">>,
        <<"zhong", "jian1", "zhen">>,
        <<"i", "n", "t", "e", "r", "p", "o", "l", "a", "t", "e">>,
        <<"t", "r", "a", "n", "s", "i", "t", "i", "o", "n">>,
        <<"m", "o", "r", "p", "h">> >>]

\* batch_keywords of _determine_task_type
batch_keywords ==
  << <<"si", "zhang">>, <<"si", "ge">>, <<"4", "zhang">>, <<"4", "ge">>,
     <<"f", "o", "u", "r">>, <<"4">>, <<"duo", "zhang">>, <<"duo", "ge">>,
     <<"b", "a", "t", "c", "h">>, <<"sheng", "cheng", "si">>,
     <<"c", "r", "e", "a", "t", "e", "sp", "f", "o", "u", "r">> >>

\* scene_keywords of _determine_task_type, _calculate_confidence, validate_input
scene_keywords ==
  << <<"chang", "jing", "yi">>, <<"chang", "jing", "er">>,
     <<"chang", "jing", "san">>, <<"chang", "jing", "si">>,
     <<"di", "yi", "zhang">>, <<"di", "er", "zhang">>,
     <<"di", "san", "zhang">>, <<"di", "si", "zhang">> >>

\* batch_keywords of _calculate_confidence
confidence_batch_keywords ==
  << <<"si", "zhang">>, <<"si", "ge">>, <<"4", "zhang">>, <<"4", "ge">>,
     <<"f", "o", "u", "r">>, <<"4">>, <<"duo", "zhang">>, <<"duo", "ge">>,
     <<"b", "a", "t", "c", "h">> >>

\* instruction_words of _extract_prompt
instruction_words ==
  << <<"bang", "wo">>, <<"qing">>, <<"sheng", "cheng">>, <<"chuang", "jian4">>,
     <<"zhi4", "zuo">>, <<"hua">>, <<"hui", "zhi4">>,
     <<"h", "e", "l", "p">>, <<"c", "r", "e", "a", "t", "e">>,
     <<"g", "e", "n", "e", "r", "a", "t", "e">>, <<"m", "a", "k", "e">>,
     <<"d", "r", "a", "w">> >>

-----------------------------------------------------------------------------
(* The task classifier.                                                     *)

\* has_batch_keyword of _determine_task_type
has_batch_keyword(msg) == AnyIn(batch_keywords, lower(msg))

\* has_scene_keywords of _determine_task_type
has_scene_keywords(msg) == AnyIn(scene_keywords, msg)

\* BatchRule without its test of the file count
BatchRuleAnyCount(msg, fc) ==
  has_batch_keyword(msg) \/ has_scene_keywords(msg)

\* the condition of the first branch (line 112): one file and a batch-count
\* or scene-label marker
BatchRule(msg, fc) ==
  fc = 1 /\ (has_batch_keyword(msg) \/ has_scene_keywords(msg))

\* the branch file_count == 0 (lines 117-122)
NoFile(msg) ==
  IF AnyIn(keywords.video_gen, msg) THEN TEXT_TO_VIDEO ELSE TEXT_TO_IMAGE

\* OneFile with the transform and image keywords tested before the video ones
OneFileTransformFirst(msg) ==
  IF \/ AnyIn(keywords.image_transform, msg)
     \/ AnyIn(keywords.image_gen, msg)
  THEN IMAGE_TO_IMAGE
  ELSE IF AnyIn(keywords.video_gen, msg) THEN IMAGE_TO_VIDEO
  ELSE IMAGE_TO_IMAGE

\* the branch file_count == 1 (lines 124-132)
OneFile(msg) ==
  IF AnyIn(keywords.video_gen, msg) THEN IMAGE_TO_VIDEO
  ELSE IF \/ AnyIn(keywords.image_transform, msg)
          \/ AnyIn(keywords.image_gen, msg)
  THEN IMAGE_TO_IMAGE
  ELSE IF AnyIn(keywords.video_gen, msg) THEN IMAGE_TO_VIDEO
  ELSE IMAGE_TO_IMAGE

\* TwoFiles without the test of the characters shou and wei
TwoFilesKeywordOnly(msg) ==
  IF AnyIn(keywords.interpolation, msg)
  THEN FIRST_TO_LAST_FRAME ELSE IMAGE_TO_IMAGE

\* the branch file_count == 2 (lines 134-139)
TwoFiles(msg) ==
  IF \/ AnyIn(keywords.interpolation, msg)
     \/ Contains(msg, <<"shou">>)
     \/ Contains(msg, <<"wei">>)
  THEN FIRST_TO_LAST_FRAME ELSE IMAGE_TO_IMAGE

\* _determine_task_type with the batch rule tried after the branch of one file
_determine_task_type_batch_last(msg, fc) ==
  IF fc = 0 THEN NoFile(msg)
  ELSE IF fc = 1 /\ AnyIn(keywords.video_gen, msg) THEN IMAGE_TO_VIDEO
  ELSE IF BatchRule(msg, fc) THEN BATCH_IMAGE_GENERATION
  ELSE IF fc = 1 THEN OneFile(msg)
  ELSE IF fc = 2 THEN TwoFiles(msg)
  ELSE IMAGE_TO_IMAGE

\* DecisionAgent._determine_task_type(message, file_count)
_determine_task_type(msg, fc) ==
  IF BatchRule(msg, fc) THEN BATCH_IMAGE_GENERATION
  ELSE IF fc = 0 THEN NoFile(msg)
  ELSE IF fc = 1 THEN OneFile(msg)
  ELSE IF fc = 2 THEN TwoFiles(msg)
  ELSE IMAGE_TO_IMAGE

-----------------------------------------------------------------------------
(* The prompt extractor.                                                    *)

RECURSIVE RemoveWords(_, _)
\* the loop of _extract_prompt: one replace per instruction word, in list order
RemoveWords(s, words) ==
  IF words = <<>> THEN s
  ELSE RemoveWords(replace(s, Head(words)), Tail(words))

\* _extract_prompt without the collapse of white space
_extract_prompt_uncollapsed(msg) ==
  strip(RemoveWords(msg, instruction_words))

\* DecisionAgent._extract_prompt(message)
_extract_prompt(msg) ==
  strip(join(<<"sp">>, split(RemoveWords(msg, instruction_words))))

-----------------------------------------------------------------------------
(* The confidence scorer, in tenths.                                        *)

\* the bonuses of a batch task (lines 234-244)
BatchBonus(msg, fc) ==
  (IF AnyIn(confidence_batch_keywords, lower(msg)) THEN 4 ELSE 0)
  + (IF AnyIn(scene_keywords, msg) THEN 3 ELSE 0)
  + (IF fc = 1 THEN 2 ELSE 0)

\* KeywordBonus with a bonus for text_to_video like that of image_to_video
KeywordBonusForVideo(msg, task_type) ==
  IF task_type = TEXT_TO_IMAGE
  THEN (IF AnyIn(keywords.image_gen, msg) THEN 3 ELSE 0)
  ELSE IF task_type \in {IMAGE_TO_VIDEO, TEXT_TO_VIDEO}
  THEN (IF AnyIn(keywords.video_gen, msg) THEN 3 ELSE 0)
  ELSE IF task_type = FIRST_TO_LAST_FRAME
  THEN (IF AnyIn(keywords.interpolation, msg) THEN 4 ELSE 0)
  ELSE 0

\* the keyword bonus of the other task types (lines 247-257)
KeywordBonus(msg, task_type) ==
  IF task_type = TEXT_TO_IMAGE
  THEN (IF AnyIn(keywords.image_gen, msg) THEN 3 ELSE 0)
  ELSE IF task_type = IMAGE_TO_VIDEO
  THEN (IF AnyIn(keywords.video_gen, msg) THEN 3 ELSE 0)
  ELSE IF task_type = FIRST_TO_LAST_FRAME
  THEN (IF AnyIn(keywords.interpolation, msg) THEN 4 ELSE 0)
  ELSE 0

\* the bonus for two files of first_to_last_frame (lines 260-261)
FileCountBonus(fc, task_type) ==
  IF task_type = FIRST_TO_LAST_FRAME /\ fc = 2 THEN 2 ELSE 0

\* _calculate_confidence without the cap of its last line
_calculate_confidence_uncapped(msg, fc, task_type) ==
  5 + (IF task_type = BATCH_IMAGE_GENERATION THEN BatchBonus(msg, fc)
       ELSE KeywordBonus(msg, task_type))
    + FileCountBonus(fc, task_type)

\* DecisionAgent._calculate_confidence(message, file_count, task_type)
_calculate_confidence(msg, fc, task_type) ==
  min(5 + (IF task_type = BATCH_IMAGE_GENERATION THEN BatchBonus(msg, fc)
           ELSE KeywordBonus(msg, task_type))
        + FileCountBonus(fc, task_type),
      10)

-----------------------------------------------------------------------------
(* The parameter extractor.                                                 *)

\* int() of one decimal digit
DigitValue ==
  [c \in {"0", "1", "2", "3", "4", "5", "6", "7", "8", "9"} |->
     CASE c = "0" -> 0 [] c = "1" -> 1 [] c = "2" -> 2 [] c = "3" -> 3
       [] c = "4" -> 4 [] c = "5" -> 5 [] c = "6" -> 6 [] c = "7" -> 7
       [] c = "8" -> 8 [] c = "9" -> 9]

RECURSIVE int(_)
\* int(s) of a str of decimal digits
int(s) ==
  IF s = <<>> THEN 0
  ELSE 10 * int(SubSeq(s, 1, Len(s) - 1)) + DigitValue[s[Len(s)]]

RECURSIVE str(_)
\* str(n) of a natural number
str(n) ==
  IF n < 10
  THEN << <<"0", "1", "2", "3", "4", "5", "6", "7", "8", "9">>[n + 1] >>
  ELSE str(n \div 10) \o str(n % 10)

RECURSIVE DigitsFrom(_, _)
\* how many characters of \d follow each other from position i on
DigitsFrom(s, i) ==
  IF i >= 1 /\ i <= Len(s) /\ s[i] \in DOMAIN DigitValue
  THEN 1 + DigitsFrom(s, i + 1) ELSE 0

RECURSIVE SpacesFrom(_, _)
\* how many characters of \s follow each other from position i on
SpacesFrom(s, i) ==
  IF i >= 1 /\ i <= Len(s) /\ s[i] \in Whitespace
  THEN 1 + SpacesFrom(s, i + 1) ELSE 0

\* the position after the white space that starts at position i
SkipSpaces(s, i) == i + SpacesFrom(s, i)

\* the number written by the digits that start at position i
NumberAt(s, i) == int(SubSeq(s, i, i + DigitsFrom(s, i) - 1))

\* the unit of the duration pattern stands at position u: miao, or "second"
\* in any letter case (re.IGNORECASE)
UnitAt(s, u) ==
  \/ StartsAt(s, <<"miao">>, u)
  \/ StartsAt(lower(s), <<"s", "e", "c", "o", "n", "d">>, u)

\* (\d+)\s*miao|(\d+)\s*seconds? matches at position i
DurationAt(s, i) ==
  /\ DigitsFrom(s, i) >= 1
  /\ UnitAt(s, SkipSpaces(s, i + DigitsFrom(s, i)))

RECURSIVE DurationSearch(_, _)
\* re.search of the duration pattern from position i on: where the leftmost
\* match starts, 0 when there is none
DurationSearch(s, i) ==
  IF i > Len(s) THEN 0
  ELSE IF DurationAt(s, i) THEN i
  ELSE DurationSearch(s, i + 1)

\* the separators of the three size_patterns, in list order
size_separators ==
  << {<<"x">>, <<"mul">>}, {<<":">>}, {<<"b", "y">>} >>

\* the position after the separator sep that stands at u and the white space
\* that follows it, 0 when sep does not stand at u
AfterSeparator(s, u, sep) ==
  IF StartsAt(s, sep, u) THEN SkipSpaces(s, u + Len(sep)) ELSE 0

\* where the second number of size_patterns[k] starts when the pattern's
\* separator is looked for at position u, 0 when the pattern does not match
HeightAt(s, u, k) ==
  IF \E sep \in size_separators[k] :
       DigitsFrom(s, AfterSeparator(s, u, sep)) >= 1
  THEN AfterSeparator(s, u, CHOOSE sep \in size_separators[k] :
                              DigitsFrom(s, AfterSeparator(s, u, sep)) >= 1)
  ELSE 0

\* size_patterns[k], (\d+)\s*sep\s*(\d+), matches at position i
SizeAt(s, i, k) ==
  /\ DigitsFrom(s, i) >= 1
  /\ HeightAt(s, SkipSpaces(s, i + DigitsFrom(s, i)), k) # 0

RECURSIVE SizeSearch(_, _, _)
\* re.search(size_patterns[k], s) from position i on: where the leftmost
\* match starts, 0 when there is none
SizeSearch(s, k, i) ==
  IF i > Len(s) THEN 0
  ELSE IF SizeAt(s, i, k) THEN i
  ELSE SizeSearch(s, k, i + 1)

\* f"{width}x{height}" of the match of size_patterns[k] that starts at i
SizeOf(s, i, k) ==
  str(NumberAt(s, i)) \o <<"x">>
  \o str(NumberAt(s, HeightAt(s, SkipSpaces(s, i + DigitsFrom(s, i)), k)))

RECURSIVE SizeParamLastFirst(_, _)
\* SizeParam with the size_patterns tried from the last to the first
SizeParamLastFirst(s, k) ==
  IF k > 3 THEN [q \in {} |-> 0]
  ELSE IF SizeSearch(s, 4 - k, 1) # 0
  THEN "size" :> SizeOf(s, SizeSearch(s, 4 - k, 1), 4 - k)
  ELSE SizeParamLastFirst(s, k + 1)

RECURSIVE SizeParam(_, _)
\* the loop over size_patterns from index k on: the dict entry of the first
\* pattern that matches, no entry when none does
SizeParam(s, k) ==
  IF k > 3 THEN [q \in {} |-> 0]
  ELSE IF SizeSearch(s, k, 1) # 0 THEN "size" :> SizeOf(s, SizeSearch(s, k, 1), k)
  ELSE SizeParam(s, k + 1)

\* style_keywords of _extract_parameters, in dict order
style_keywords ==
  << [style |-> "realistic",
      keywords |-> << <<"zhen1", "shi2">>, <<"xie", "shi2">>,
                      <<"r", "e", "a", "l", "i", "s", "t", "i", "c">>,
                      <<"p", "h", "o", "t", "o", "r", "e", "a", "l", "i", "s",
                        "t", "i", "c">> >>],
     [style |-> "anime",
      keywords |-> << <<"dong", "man">>, <<"ka", "tong">>,
                      <<"a", "n", "i", "m", "e">>,
                      <<"c", "a", "r", "t", "o", "o", "n">> >>],
     [style |-> "artistic",
      keywords |-> << <<"yi4", "shu">>, <<"hui", "hua">>,
                      <<"a", "r", "t", "i", "s", "t", "i", "c">>,
                      <<"p", "a", "i", "n", "t", "i", "n", "g">> >>],
     [style |-> "cinematic",
      keywords |-> << <<"dian", "ying">>, <<"ying", "shi">>,
                      <<"c", "i", "n", "e", "m", "a", "t", "i", "c">>,
                      <<"f", "i", "l", "m">> >>] >>

RECURSIVE StyleParam(_, _)
\* the loop over style_keywords from index g on, s being message.lower()
StyleParam(s, g) ==
  IF g > Len(style_keywords) THEN [q \in {} |-> 0]
  ELSE IF AnyIn(style_keywords[g].keywords, s)
  THEN "style" :> style_keywords[g].style
  ELSE StyleParam(s, g + 1)

\* the dict with no key
EmptyDict == [q \in {} |-> 0]

\* DurationParam without the limits of line 170
DurationParamUnclamped(s, at) ==
  "duration" :> (IF at # 0 THEN NumberAt(s, at) ELSE 5)

\* the duration entry, the match of the duration pattern starting at position
\* at, or there being none when at is 0
DurationParam(s, at) ==
  "duration" :> (IF at # 0 THEN min(max(NumberAt(s, at), 1), 10) ELSE 5)

\* DecisionAgent._extract_parameters(message): a dict, a key absent from the
\* dict being absent from the domain
_extract_parameters(msg) ==
  DurationParam(msg, DurationSearch(msg, 1))
  @@ SizeParam(msg, 1)
  @@ StyleParam(lower(msg), 1)

-----------------------------------------------------------------------------
(* The reasoning trace.  A reason is a record that names the sentence the   *)
(* code appends; the uploaded-files sentence carries the count it prints.   *)

\* FileReason with the test of line 207 taken for file_count <= 1
FileReasonOneIsNone(fc) ==
  IF fc <= 1 THEN << [text |-> "no_file_uploaded"] >>
  ELSE << [text |-> "files_uploaded", n |-> fc] >>

\* the first reason (lines 207-210): no file, or the count of the files
FileReason(fc) ==
  IF fc = 0 THEN << [text |-> "no_file_uploaded"] >>
  ELSE << [text |-> "files_uploaded", n |-> fc] >>

\* DecisionAgent._generate_reasoning(task_type, message, file_count): the
\* task type of the head sentence and the reasons joined after it
_generate_reasoning(task_type, msg, fc) ==
  [task_type |-> task_type,
   reasons |->
     FileReason(fc)
     \o (IF task_type = BATCH_IMAGE_GENERATION
         THEN << [text |-> "has_batch_keyword"],
                 [text |-> "needs_reference_image"] >>
         ELSE <<>>)
     \o (IF \/ Contains(msg, <<"shi", "pin">>)
            \/ Contains(lower(msg), <<"v", "i", "d", "e", "o">>)
         THEN << [text |-> "has_video_word"] >> ELSE <<>>)
     \o (IF \/ Contains(msg, <<"tu", "pian">>)
            \/ Contains(lower(msg), <<"i", "m", "a", "g", "e">>)
         THEN << [text |-> "has_image_word"] >> ELSE <<>>)
     \o (IF \/ Contains(msg, <<"shou", "wei">>)
            \/ Contains(msg, <<"cha", "zhi2">>)
         THEN << [text |-> "has_interpolation_word"] >> ELSE <<>>)]

\* the result dict of analyze_intent (lines 59-78), the task type being known
IntentResult(msg, fc, task_type) ==
  [taskType |-> task_type,
   prompt |-> _extract_prompt(msg),
   fileCount |-> fc,
   reasoning |-> _generate_reasoning(task_type, msg, fc),
   parameters |-> _extract_parameters(msg),
   confidence |-> _calculate_confidence(msg, fc, task_type)]

\* DecisionAgent.analyze_intent(message, file_count): the classifier reads
\* message.lower(), the other parts read the message as typed
analyze_intent(msg, fc) ==
  IntentResult(msg, fc, _determine_task_type(lower(msg), fc))

-----------------------------------------------------------------------------
(* The scene splitter: re.findall over the four scene_patterns.             *)

\* the class [yi er san si] of the patterns (U+4E00, U+4E8C, U+4E09, U+56DB)
NumeralClass == {"yi", "er", "san", "si"}

\* the character at position i of s, or "" past its end
CharAt(s, i) == IF i >= 1 /\ i <= Len(s) THEN s[i] ELSE ""

\* The marker that opens scene_patterns[p] and stands in its lookahead:
\* its length when it matches at position i, else 0.
\*   1  chang jing [NumeralClass] colon      2  chang jing \d+ colon
\*   3  di [NumeralClass] zhang colon        4  di \d+ zhang colon
MarkerLen(s, i, p) ==
  CASE p = 1 ->
         (IF /\ StartsAt(s, <<"chang", "jing">>, i)
             /\ CharAt(s, i + 2) \in NumeralClass
             /\ CharAt(s, i + 3) = "colon" THEN 4 ELSE 0)
    [] p = 2 ->
         (IF /\ StartsAt(s, <<"chang", "jing">>, i)
             /\ DigitsFrom(s, i + 2) >= 1
             /\ CharAt(s, i + 2 + DigitsFrom(s, i + 2)) = "colon"
          THEN DigitsFrom(s, i + 2) + 3 ELSE 0)
    [] p = 3 ->
         (IF /\ CharAt(s, i) = "di"
             /\ CharAt(s, i + 1) \in NumeralClass
             /\ StartsAt(s, <<"zhang", "colon">>, i + 2) THEN 4 ELSE 0)
    [] p = 4 ->
         (IF /\ CharAt(s, i) = "di"
             /\ DigitsFrom(s, i + 1) >= 1
             /\ StartsAt(s, <<"zhang", "colon">>, i + 1 + DigitsFrom(s, i + 1))
          THEN DigitsFrom(s, i + 1) + 3 ELSE 0)

\* $ without re.MULTILINE before position i: the end of the string, or just
\* before a line feed that ends the string
AtEnd(s, i) == i = Len(s) + 1 \/ (i = Len(s) /\ s[i] = "nl")

RECURSIVE CaptureEnd(_, _, _)
\* where the lazy (.*?) under re.DOTALL that starts at i stops: the first
\* position where the lookahead (?=marker|$) holds
CaptureEnd(s, i, p) ==
  IF AtEnd(s, i) \/ MarkerLen(s, i, p) > 0 THEN i
  ELSE CaptureEnd(s, i + 1, p)

\* One element of re.findall's list: the match of scene_patterns[p] whose
\* marker stands at pos..from-1 and whose capture is from..to-1.  A pattern
\* with one group (1, 3) yields the capture as a str; a pattern with two
\* groups (2, 4) yields the tuple (digits, capture).
MatchItem(s, p, pos, from, to) ==
  IF p \in {1, 3}
  THEN [is_tuple |-> FALSE, str |-> SubSeq(s, from, to - 1)]
  ELSE [is_tuple |-> TRUE,
        groups |-> <<SubSeq(s, pos + (IF p = 2 THEN 2 ELSE 1),
                            from - (IF p = 2 THEN 2 ELSE 3)),
                     SubSeq(s, from, to - 1)>>]

RECURSIVE findall(_, _, _)
\* the match whose capture starts at from, and the matches after it
MatchFrom(s, p, pos, from, to) ==
  <<MatchItem(s, p, pos, from, to)>> \o findall(s, p, to)

\* the matches from pos on, a marker of length m standing at pos (m > 0) or
\* none standing there (m = 0)
MatchAt(s, p, pos, m) ==
  IF m = 0 THEN findall(s, p, pos + 1)
  ELSE MatchFrom(s, p, pos, pos + m, CaptureEnd(s, pos + m, p))

\* re.findall(scene_patterns[p], s, re.DOTALL) from position pos on
findall(s, p, pos) ==
  IF pos > Len(s) THEN <<>> ELSE MatchAt(s, p, pos, MarkerLen(s, pos, p))

\* scene_text = match[1] if len(match) > 1 else match[0]  (line 335): on a
\* tuple this is its second group; on a str it is the str's second character,
\* or its only one; on the empty str it raises IndexError.
SceneText(match) ==
  IF match.is_tuple THEN [raised |-> FALSE, text |-> match.groups[2]]
  ELSE IF Len(match.str) > 1
  THEN [raised |-> FALSE, text |-> <<match.str[2]>>]
  ELSE IF Len(match.str) = 1
  THEN [raised |-> FALSE, text |-> <<match.str[1]>>]
  ELSE [raised |-> TRUE, text |-> <<>>]

\* lines 336-338: the stripped text is appended when it is not empty
AppendScene(t, rest) ==
  IF t.raised \/ rest.raised THEN [raised |-> TRUE, scenes |-> <<>>]
  ELSE [raised |-> FALSE,
        scenes |-> (IF strip(t.text) # <<>> THEN <<strip(t.text)>> ELSE <<>>)
                   \o rest.scenes]

RECURSIVE CollectScenes(_)
\* the loop over the matches of one pattern (lines 334-338)
CollectScenes(matches) ==
  IF matches = <<>> THEN [raised |-> FALSE, scenes |-> <<>>]
  ELSE AppendScene(SceneText(Head(matches)), CollectScenes(Tail(matches)))

RECURSIVE MarkedScenes(_, _)
\* the loop over scene_patterns from index p on (lines 331-339): the scenes
\* of the first pattern that matches somewhere
MarkedScenes(prompt, p) ==
  IF p > 4 THEN [raised |-> FALSE, scenes |-> <<>>]
  ELSE IF findall(prompt, p, 1) # <<>>
  THEN CollectScenes(findall(prompt, p, 1))
  ELSE MarkedScenes(prompt, p + 1)

\* [p.strip() for p in parts if p.strip()]
StripAll(parts) ==
  SelectSeq([i \in 1..Len(parts) |-> strip(parts[i])], LAMBDA q : q # <<>>)

\* the paragraph fallback (lines 342-346) on the stripped paragraphs
Fallback(paragraphs) ==
  IF Len(paragraphs) >= 2 THEN Tail(paragraphs) ELSE <<>>

\* FirstFour without the cut
FirstFourUncut(scenes) == scenes

\* scenes[:4]
FirstFour(scenes) == SubSeq(scenes, 1, min(4, Len(scenes)))

\* lines 341-348, the marked scenes being known
FinishScenes(marked, prompt) ==
  IF marked.raised THEN [raised |-> TRUE, scenes |-> <<>>]
  ELSE IF marked.scenes # <<>>
  THEN [raised |-> FALSE, scenes |-> FirstFour(marked.scenes)]
  ELSE [raised |-> FALSE,
        scenes |-> FirstFour(Fallback(StripAll(split_sep(prompt, "nl"))))]

\* DecisionAgent._parse_scenes(prompt): [raised, scenes]
_parse_scenes(prompt) == FinishScenes(MarkedScenes(prompt, 1), prompt)

-----------------------------------------------------------------------------
(* The execution planner.                                                   *)

\* the steps that _plan_batch_generation builds from the scenes (302-315)
BatchSteps(scenes, file_paths) ==
  [i \in 1..Len(scenes) |->
     [step |-> i,
      action |-> IMAGE_TO_IMAGE,
      parameters |-> [prompt |-> scenes[i],
                      filePaths |-> file_paths,
                      is_batch |-> TRUE,
                      batch_index |-> i,
                      total_batches |-> Len(scenes)],
      description |-> [index |-> i,
                       head |-> SubSeq(scenes[i], 1, min(50, Len(scenes[i])))]]]

\* the plan of the parsed scenes, or the exception of the parser
BatchPlan(parsed, file_paths) ==
  [raised |-> parsed.raised, plan |-> BatchSteps(parsed.scenes, file_paths)]

\* DecisionAgent._plan_batch_generation(intent_data): [raised, plan]
_plan_batch_generation(data) ==
  BatchPlan(_parse_scenes(data.prompt), data.filePaths)

\* DecisionAgent._get_action_description(task_type): the entry of the table
\* descriptions that the task type selects, or its default
_get_action_description(task_type) ==
  IF task_type \in {TEXT_TO_IMAGE, IMAGE_TO_IMAGE, IMAGE_TO_VIDEO, TEXT_TO_VIDEO,
                    FIRST_TO_LAST_FRAME, BATCH_IMAGE_GENERATION}
  THEN [description_of |-> task_type]
  ELSE [description_of |-> "unknown_task"]

\* plan_execution without the extracted parameters in the step
plan_execution_prompt_only(data) ==
  IF data.taskType = BATCH_IMAGE_GENERATION THEN _plan_batch_generation(data)
  ELSE [raised |-> FALSE,
        plan |-> << [step |-> 1,
                     action |-> data.taskType,
                     parameters |-> [prompt |-> data.prompt,
                                     filePaths |-> data.filePaths],
                     description |->
                       _get_action_description(data.taskType)] >>]

\* DecisionAgent.plan_execution(intent_data): [raised, plan]
plan_execution(data) ==
  IF data.taskType = BATCH_IMAGE_GENERATION THEN _plan_batch_generation(data)
  ELSE [raised |-> FALSE,
        plan |-> << [step |-> 1,
                     action |-> data.taskType,
                     parameters |-> data.parameters
                                    @@ [prompt |-> data.prompt,
                                        filePaths |-> data.filePaths],
                     description |->
                       _get_action_description(data.taskType)] >>]

-----------------------------------------------------------------------------
(* The input validator.  An error is a string that names the sentence the   *)
(* code appends.                                                            *)

\* errors.append(error) under the condition failed
ErrorIf(failed, error) == IF failed THEN <<error>> ELSE <<>>

\* TooShort without the strip of the message
TooShortUntrimmed(msg, n) == msg = <<>> \/ Len(msg) < n

\* not message or len(message.strip()) < n
TooShort(msg, n) == msg = <<>> \/ Len(strip(msg)) < n

\* BatchErrors as an if / elif chain: the first failing rule alone is reported
BatchErrorsFirstOnly(msg, fc) ==
  IF fc = 0 THEN <<"batch_needs_reference_image">>
  ELSE IF TooShort(msg, 10) THEN <<"batch_needs_scene_description">>
  ELSE ErrorIf(~AnyIn(scene_keywords, msg), "batch_needs_scene_labels")

\* the rules of batch_image_generation (lines 373-381)
BatchErrors(msg, fc) ==
  ErrorIf(fc = 0, "batch_needs_reference_image")
  \o ErrorIf(TooShort(msg, 10), "batch_needs_scene_description")
  \o ErrorIf(~AnyIn(scene_keywords, msg), "batch_needs_scene_labels")

\* the rules of image_to_image (lines 388-391)
ImageToImageErrors(msg, fc) ==
  ErrorIf(fc = 0, "image_to_image_needs_image")
  \o ErrorIf(msg = <<>>, "image_to_image_needs_instruction")

\* the errors of validate_input (lines 370-403)
ValidationErrors(task_type, msg, fc) ==
  IF task_type = BATCH_IMAGE_GENERATION THEN BatchErrors(msg, fc)
  ELSE IF task_type = TEXT_TO_IMAGE
  THEN ErrorIf(TooShort(msg, 3), "text_to_image_needs_description")
  ELSE IF task_type = IMAGE_TO_IMAGE THEN ImageToImageErrors(msg, fc)
  ELSE IF task_type = IMAGE_TO_VIDEO
  THEN ErrorIf(fc = 0, "image_to_video_needs_image")
  ELSE IF task_type = FIRST_TO_LAST_FRAME
  THEN ErrorIf(fc < 2, "first_to_last_frame_needs_two_images")
  ELSE IF task_type = TEXT_TO_VIDEO
  THEN ErrorIf(TooShort(msg, 5), "text_to_video_needs_description")
  ELSE <<>>

\* the dict returned for the errors (lines 405-408)
ValidationResult(errors) == [valid |-> Len(errors) = 0, errors |-> errors]

\* DecisionAgent.validate_input(task_type, message, file_count)
validate_input(task_type, msg, fc) ==
  ValidationResult(ValidationErrors(task_type, msg, fc))

-----------------------------------------------------------------------------
(* The error handler (src/core/error_handler.py).  An error is a record of  *)
(* its message, str(error), and of whether it is an instance of             *)
(* TimeoutError.  A wait multiplier is kept in tenths: 15 is 1.5.           *)

API_ERROR == "api_error"
TIMEOUT == "timeout"
RATE_LIMIT == "rate_limit"
AUTH_ERROR == "auth_error"
UNKNOWN == "unknown"

ErrorType == {API_ERROR, TIMEOUT, RATE_LIMIT, AUTH_ERROR, UNKNOWN}

\* _classify_error with the test of "api" made first
_classify_error_api_first(error) ==
  LET error_msg == lower(error.message)
  IN  IF Contains(error_msg, <<"a", "p", "i">>) THEN API_ERROR
      ELSE IF \/ Contains(error_msg, <<"t", "i", "m", "e", "o", "u", "t">>)
              \/ error.timeout_error
      THEN TIMEOUT
      ELSE IF \/ Contains(error_msg,
                          <<"r", "a", "t", "e", "sp", "l", "i", "m", "i", "t">>)
              \/ Contains(error_msg, <<"4", "2", "9">>)
      THEN RATE_LIMIT
      ELSE IF \/ Contains(error_msg, <<"a", "u", "t", "h">>)
              \/ Contains(error_msg, <<"4", "0", "1">>)
              \/ Contains(error_msg, <<"4", "0", "3">>)
      THEN AUTH_ERROR
      ELSE UNKNOWN

_classify_error(error) ==
  LET error_msg == lower(error.message)
  IN  IF \/ Contains(error_msg, <<"t", "i", "m", "e", "o", "u", "t">>)
         \/ error.timeout_error
      THEN TIMEOUT
      ELSE IF \/ Contains(error_msg,
                          <<"r", "a", "t", "e", "sp", "l", "i", "m", "i", "t">>)
              \/ Contains(error_msg, <<"4", "2", "9">>)
      THEN RATE_LIMIT
      ELSE IF \/ Contains(error_msg, <<"a", "u", "t", "h">>)
              \/ Contains(error_msg, <<"4", "0", "1">>)
              \/ Contains(error_msg, <<"4", "0", "3">>)
      THEN AUTH_ERROR
      ELSE IF Contains(error_msg, <<"a", "p", "i">>) THEN API_ERROR
      ELSE UNKNOWN

\* _should_retry with every type but unknown in the retryable list
_should_retry_but_unknown(error_type) ==
  error_type \in {API_ERROR, TIMEOUT, RATE_LIMIT, AUTH_ERROR}

_should_retry(error_type) ==
  error_type \in {API_ERROR, TIMEOUT, RATE_LIMIT}

\* the dict strategies of get_retry_strategy
strategies ==
  [e \in ErrorType |->
     CASE e = TIMEOUT ->
            [max_attempts |-> 3, wait_type |-> "exponential",
             multiplier |-> 20, min_wait |-> 2, max_wait |-> 10]
       [] e = RATE_LIMIT ->
            [max_attempts |-> 5, wait_type |-> "exponential",
             multiplier |-> 30, min_wait |-> 5, max_wait |-> 30]
       [] e = API_ERROR ->
            [max_attempts |-> 3, wait_type |-> "exponential",
             multiplier |-> 15, min_wait |-> 1, max_wait |-> 10]
       [] e = AUTH_ERROR ->
            [max_attempts |-> 0, wait_type |-> "none",
             multiplier |-> 0, min_wait |-> 0, max_wait |-> 0]
       [] e = UNKNOWN ->
            [max_attempts |-> 2, wait_type |-> "exponential",
             multiplier |-> 20, min_wait |-> 1, max_wait |-> 5]]

get_retry_strategy(error_type) ==
  IF error_type \in DOMAIN strategies
  THEN strategies[error_type]
  ELSE strategies[UNKNOWN]

\* the dict error_info of handle_error; every time of day is written "now"
handle_error(error, context) ==
  [type |-> _classify_error(error),
   message |-> error.message,
   context |-> context,
   timestamp |-> "now",
   should_retry |-> _should_retry(_classify_error(error))]

-----------------------------------------------------------------------------
(* The memory manager (src/core/memory_manager.py).  The time of day of a   *)
(* record is the number of add_conversation calls made since the manager    *)
(* was constructed; the records loaded from memory.json are older.          *)

\* the most records add_conversation keeps of one session
MaxHistory == 100

\* lst[-n:] of Python
LastOf(lst, n) ==
  IF n = 0 THEN lst
  ELSE IF n > 0 THEN SubSeq(lst, max(1, Len(lst) - n + 1), Len(lst))
  ELSE SubSeq(lst, min(Len(lst), -n) + 1, Len(lst))

\* the oldest records kept where the source keeps the most recent
LimitHistoryOldest(log) ==
  IF Len(log) > MaxHistory THEN SubSeq(log, 1, MaxHistory) ELSE log

\* the log of a session after the limit on its length
LimitHistory(log) ==
  IF Len(log) > MaxHistory THEN LastOf(log, MaxHistory) ELSE log

\* memory["conversations"] after add_conversation, called at time now
add_conversation(convs, session_id, user_input, reply, metadata, now) ==
  LET log == IF session_id \in DOMAIN convs THEN convs[session_id] ELSE <<>>
      record == [timestamp |-> now,
                 user_input |-> user_input,
                 response |-> reply,
                 metadata |-> metadata]
  IN  [s \in DOMAIN convs \cup {session_id} |->
         IF s = session_id THEN LimitHistory(Append(log, record))
         ELSE convs[s]]

get_conversation_history(convs, session_id, limit) ==
  IF session_id \notin DOMAIN convs THEN <<>>
  ELSE LastOf(convs[session_id], limit)

-----------------------------------------------------------------------------
(* The intent endpoint (src/app.py): the rule-based analysis and the reply   *)
(* of the chat engine.  A reply is a record of whether the call raised, of  *)
(* its text and of what json.loads makes of the braces found in the text.   *)

\* simple_intent_analysis(message, file_count)
simple_intent_analysis(msg, fc) ==
  LET message_lower == lower(msg)
      video == AnyIn(<< <<"shi", "pin">>, <<"shi_s", "pin_s">>,
                        <<"v", "i", "d", "e", "o">>, <<"dong", "hua">>,
                        <<"dong_s", "hua_s">> >>, message_lower)
      frames == AnyIn(<< <<"shou", "wei">>, <<"cha", "zhi2">>,
                         <<"guo", "du">>, <<"zhuan_s", "huan_s">> >>,
                      message_lower)
      task_type ==
        IF fc = 0 THEN IF video THEN TEXT_TO_VIDEO ELSE TEXT_TO_IMAGE
        ELSE IF fc = 1 THEN IF video THEN IMAGE_TO_VIDEO ELSE IMAGE_TO_IMAGE
        ELSE IF fc = 2
        THEN IF frames THEN FIRST_TO_LAST_FRAME ELSE IMAGE_TO_IMAGE
        ELSE IMAGE_TO_IMAGE
  IN  [taskType |-> task_type,
       prompt |-> msg,
       fileCount |-> fc,
       reasoning |-> "simple_rules"]

\* the places of a character in a text
Places(s, c) == {i \in 1..Len(s) : s[i] = c}

\* re.search(r'\{.*\}', response_text, re.DOTALL): whether it matches
json_match(response_text) ==
  \E i \in Places(response_text, "{"), j \in Places(response_text, "}") : i < j

\* the body of the answer: the file paths and the message put into the dict
Attach(data, file_paths, msg) ==
  [filePaths |-> file_paths, originalMessage |-> msg] @@ data

\* the answer of /api/analyze_intent for a reply of the chat engine
IntentAnswer(reply, msg, fc, file_paths) ==
  IF reply.raised THEN [status |-> 500, body |-> [error |-> "ChatError"]]
  ELSE IF json_match(reply.response_text)
  THEN IF reply.loads.ok
       THEN [status |-> 200,
             body |-> Attach(reply.loads.value, file_paths, msg)]
       ELSE [status |-> 500, body |-> [error |-> "JSONDecodeError"]]
  ELSE [status |-> 200,
        body |-> Attach(simple_intent_analysis(msg, fc), file_paths, msg)]

-----------------------------------------------------------------------------
(* The requests of the model.                                               *)

\* what a typed message is made of: words of the keyword tables in both
\* letter cases, a neutral character and a space
Fragments ==
  { <<"4">>, <<"sheng", "cheng", "si">>, <<"F", "O", "U", "R">>,
    <<"chang", "jing", "yi">>, <<"v", "i", "d", "e", "o">>,
    <<"V", "I", "D", "E", "O">>, <<"dong", "hua">>,
    <<"I", "M", "A", "G", "E">>, <<"tu", "pian">>, <<"e", "d", "i", "t">>,
    <<"M", "o", "r", "p", "h">>, <<"cha", "zhi2">>, <<"shou">>, <<"mao">>,
    <<"sp">> }

RECURSIVE TypedMessages(_)
\* the messages of at most n fragments
TypedMessages(n) ==
  IF n = 0 THEN {<<>>}
  ELSE LET shorter == TypedMessages(n - 1)
       IN  shorter \cup {m \o f : m \in shorter, f \in Fragments}

\* the label of the i-th scene in each of the four styles of scene_patterns
SceneMarker(style, i) ==
  LET numeral == <<"yi", "er", "san", "si", "wu", "liu">>[i]
  IN  CASE style = 1 -> <<"chang", "jing", numeral, "colon">>
        [] style = 2 -> <<"chang", "jing">> \o str(i) \o <<"colon">>
        [] style = 3 -> <<"di", numeral, "zhang", "colon">>
        [] style = 4 -> <<"di">> \o str(i) \o <<"zhang", "colon">>

\* what follows a label: nothing, one character, one character and a line
\* feed, two characters
SceneTexts ==
  { <<>>, <<"mao">>, <<"mao", "nl">>, <<"mao", "gou">> }

RECURSIVE LabelledPrompts(_, _)
\* the prompts of exactly n labelled segments whose labels are of the styles
LabelledPrompts(styles, n) ==
  IF n = 0 THEN {<<>>}
  ELSE {q \o SceneMarker(st, n) \o t :
          q \in LabelledPrompts(styles, n - 1), st \in styles, t \in SceneTexts}

\* a scene prompt: an optional reference line, then labelled segments, all of
\* one style (at most MaxSegs) or of any styles (at most MaxMixed)
ScenePrompts ==
  LET labelled ==
        UNION {LabelledPrompts({st}, n) : st \in 1..4, n \in 0..MaxSegs}
        \cup UNION {LabelledPrompts(1..4, n) : n \in 0..MaxMixed}
  IN  {ref \o q : ref \in {<<>>, <<"gou", "nl">>}, q \in labelled}

\* the lines of a prompt without labels: empty, a word, a word after a space
ParagraphLines ==
  { <<>>, <<"mao">>, <<"sp", "gou">> }

RECURSIVE ParagraphPrompts(_)
\* the prompts of at most n lines, a line feed between two lines
ParagraphPrompts(n) ==
  IF n = 0 THEN {<<>>}
  ELSE IF n = 1 THEN {<<>>} \cup ParagraphLines
  ELSE ParagraphPrompts(n - 1)
       \cup {q \o <<"nl">> \o l : q \in ParagraphPrompts(n - 1),
                                   l \in ParagraphLines}

RECURSIVE CrowdedPrompt(_, _)
\* the prompt of n scenes labelled with digits in a style, one scene a line
CrowdedPrompt(style, n) ==
  IF n = 0 THEN <<>>
  ELSE CrowdedPrompt(style, n - 1) \o SceneMarker(style, n)
       \o <<"mao">> \o str(n) \o <<"nl">>

\* the prompts of up to MaxScenes scenes labelled with digits
CrowdedPrompts ==
  {CrowdedPrompt(style, n) : style \in {2, 4}, n \in 1..MaxScenes}

\* the filePaths of a request with n uploaded files
FilePaths(n) == [i \in 1..n |-> i]

\* n spaces
Spaces(n) == [i \in 1..n |-> "sp"]

\* what stands before a duration: nothing, a number that no unit follows, a
\* neutral character, a number cut from the duration by a character
DurationPrefixes ==
  { <<>>, <<"5", "sp">>, <<"mao">>, <<"9", "mao">> }

\* the numbers of a duration: below, inside, at the end of and above 1..10
DurationNumbers ==
  { <<"0">>, <<"7">>, <<"1", "0">>, <<"1", "2">> }

\* what follows the number: a unit of the pattern in either letter case, a
\* word that is not a unit, nothing
DurationUnits ==
  { <<"miao">>, <<"s", "e", "c", "o", "n", "d">>,
    <<"S", "E", "C", "O", "N", "D", "S">>, <<"s", "e", "c">>, <<>> }

\* messages that speak of a duration, a second duration following or not
DurationMessages ==
  {pre \o num \o Spaces(g) \o unit \o post :
     pre \in DurationPrefixes, num \in DurationNumbers, g \in 0..MaxGap,
     unit \in DurationUnits, post \in {<<>>, <<"3", "miao">>}}

\* what stands between the two numbers of a size: the separators of the
\* size_patterns and a capital X, which is none of them
SizeJoints ==
  { <<"x">>, <<"mul">>, <<":">>, <<"b", "y">>, <<"X">> }

\* no size, or the size w, h written with a joint and a gap on both its sides
SizeItems(w, h) ==
  {<<>>} \cup {w \o Spaces(g) \o joint \o Spaces(g) \o h :
                 joint \in SizeJoints, g \in 0..MaxGap}

\* messages that speak of up to two sizes, after a duration or not, before a
\* style word or not
SizeMessages ==
  {pre \o first \o mid \o second \o style :
     pre \in {<<>>, <<"7", "miao", "sp">>},
     first \in SizeItems(<<"1", "6">>, <<"9">>),
     mid \in {<<"sp">>, <<"mao">>},
     second \in SizeItems(<<"4">>, <<"0", "3">>),
     style \in {<<>>, <<"sp", "a", "n", "i", "m", "e">>,
                <<"sp", "F", "I", "L", "M">>}}

\* n times the character c
Repeat(c, n) == [i \in 1..n |-> c]

\* what a validated message says: neutral characters, alone, after a scene
\* keyword, after a scene label with a digit, or around a space
ValidatedBodies ==
  {Repeat("mao", n) : n \in 0..MaxBody}
  \cup {kw \o Repeat("mao", n) :
          kw \in {<<"chang", "jing", "yi">>, <<"di", "si", "zhang">>,
                  <<"chang", "jing", "1", "colon">>},
          n \in 0..MaxBody}
  \cup {Repeat("mao", n) \o <<"sp">> \o Repeat("gou", n) : n \in 1..MaxBody}

\* the messages handed to validate_input: a body with or without a space
\* before it and a line feed after it
ValidatedMessages ==
  {before \o body \o after :
     before \in {<<>>, <<"sp">>}, body \in ValidatedBodies,
     after \in {<<>>, <<"nl">>}}

\* what follows the instruction words of a message: nothing, a word, a word
\* among spaces
PromptTails ==
  { <<>>, <<"mao">>, <<"sp", "sp", "mao", "sp">> }

\* the word inner written before, inside or after the word outer
Inserted(outer, inner) ==
  {SubSeq(outer, 1, k) \o inner \o SubSeq(outer, k + 1, Len(outer)) :
     k \in 0..Len(outer)}

\* messages of two instruction words, one written before, inside or after
\* the other, and a tail
InstructionMessages ==
  {words \o tail :
     words \in UNION {Inserted(instruction_words[a], instruction_words[b]) :
                        a \in 1..Len(instruction_words),
                        b \in 1..Len(instruction_words)},
     tail \in PromptTails}

\* what the message of an error is made of: the patterns of _classify_error
\* in both letter cases, a part of a pattern and a word that is no pattern
ErrorWords ==
  { <<"T", "i", "m", "e", "o", "u", "t">>,
    <<"R", "a", "t", "e", "sp", "L", "i", "m", "i", "t">>,
    <<"4", "2", "9">>, <<"A", "U", "T", "H">>, <<"4", "0", "1">>,
    <<"4", "0", "3">>, <<"a", "p", "i">>, <<"r", "a", "t", "e">>,
    <<"b", "o", "o", "m">> }

\* the words of which one message may hold two
PatternWords ==
  { <<"T", "i", "m", "e", "o", "u", "t">>,
    <<"R", "a", "t", "e", "sp", "L", "i", "m", "i", "t">>,
    <<"A", "U", "T", "H">>, <<"a", "p", "i">> }

\* the messages of the errors: empty, of one word, of two pattern words
ErrorMessages ==
  {<<>>} \cup ErrorWords
         \cup {a \o <<"sp">> \o b : a, b \in PatternWords}

\* the errors given to handle_error, instances of TimeoutError or not
Errors ==
  [message : ErrorMessages, timeout_error : BOOLEAN]

\* the session ids: the one app.py writes to, another, one never written to
Sessions == {"web", "cli", "none"}

\* the log of a session as loaded from memory.json: n records, all older
\* than the manager
Loaded(n) ==
  [i \in 1..n |->
     [timestamp |-> i - n,
      user_input |-> <<"mao">>,
      response |-> "done",
      metadata |-> EmptyDict]]

\* what a message posted to /api/analyze_intent is made of: the words of
\* simple_intent_analysis, in both letter cases, and a neutral character
ApiFragments ==
  { <<"shi", "pin">>, <<"shi_s", "pin_s">>, <<"v", "i", "d", "e", "o">>,
    <<"V", "I", "D", "E", "O">>, <<"dong", "hua">>, <<"dong_s", "hua_s">>,
    <<"shou", "wei">>, <<"cha", "zhi2">>, <<"guo", "du">>,
    <<"zhuan_s", "huan_s">>, <<"mao">> }

RECURSIVE ApiMessages(_)
\* the posted messages of at most n fragments
ApiMessages(n) ==
  IF n = 0 THEN {<<>>}
  ELSE LET shorter == ApiMessages(n - 1)
       IN  shorter \cup {m \o f : m \in shorter, f \in ApiFragments}

\* json.loads gave no dict: it raised JSONDecodeError, or was not called
NoJson == [ok |-> FALSE, value |-> EmptyDict]

\* the replies of the chat engine: the call raises; prose; braces the wrong
\* way round; braces around prose; an empty object, alone, over two lines
\* and after prose; an object that names a task type
Replies ==
  { [raised |-> TRUE, response_text |-> <<>>, loads |-> NoJson],
    [raised |-> FALSE, response_text |-> <<"o", "k">>, loads |-> NoJson],
    [raised |-> FALSE, response_text |-> <<"}", "o", "k", "{">>,
     loads |-> NoJson],
    [raised |-> FALSE, response_text |-> <<"{", "o", "k", "}">>,
     loads |-> NoJson],
    [raised |-> FALSE, response_text |-> <<"{", "}">>,
     loads |-> [ok |-> TRUE, value |-> EmptyDict]],
    [raised |-> FALSE, response_text |-> <<"{", "nl", "}">>,
     loads |-> [ok |-> TRUE, value |-> EmptyDict]],
    [raised |-> FALSE, response_text |-> <<"o", "k", "sp", "{", "}">>,
     loads |-> [ok |-> TRUE, value |-> EmptyDict]],
    [raised |-> FALSE,
     response_text |->
       <<"{", "\"", "t", "a", "s", "k", "T", "y", "p", "e", "\"", ":", "\"",
         "t", "e", "x", "t", "_", "t", "o", "_", "v", "i", "d", "e", "o",
         "\"", "}">>,
     loads |-> [ok |-> TRUE, value |-> [taskType |-> TEXT_TO_VIDEO]]] }

\* the paths of the uploaded files that have a name, in the order uploaded
RECURSIVE SavedPaths(_, _)
SavedPaths(n, named) ==
  IF n = 0 THEN <<>>
  ELSE IF n \in named THEN Append(SavedPaths(n - 1, named), n)
  ELSE SavedPaths(n - 1, named)

-----------------------------------------------------------------------------
(* The state machine: one request, analysed and planned through the agent   *)
(* or posted to execute_task as a batch task.                               *)

\* a request has arrived and nothing has been computed for it
Fresh ==
  /\ pc = "request"
  /\ result = EmptyDict
  /\ intent_data = EmptyDict
  /\ execution_plan = <<>>
  /\ scored = EmptyDict
  /\ results = <<>>
  /\ response = EmptyDict
  /\ validation = EmptyDict
  /\ chat = EmptyDict
  /\ error_history = <<>>
  /\ handled = EmptyDict
  /\ strategy = EmptyDict
  /\ history = EmptyDict
  /\ clock = 0

\* no memory.json: the default structure of _load_memory
DefaultMemory ==
  /\ conversations = EmptyDict
  /\ memory_file = EmptyDict

Init ==
  /\ \/ message \in TypedMessages(MaxFrags) /\ file_count \in 0..MaxFiles
     \/ message \in ScenePrompts /\ file_count = 1
     \/ message \in ParagraphPrompts(MaxParas) \cup CrowdedPrompts
        /\ file_count = 1
     \/ message \in {<<"4", "nl">> \o q : q \in ParagraphPrompts(MaxParas)}
        /\ file_count = 1
  /\ Fresh
  /\ DefaultMemory

\* DecisionAgent.analyze_intent on the request
AnalyzeIntent ==
  /\ pc = "request"
  /\ result' = analyze_intent(message, file_count)
  /\ pc' = "analyzed"
  /\ UNCHANGED <<message, file_count, intent_data, execution_plan, scored,
                 results, response, validation>>
  /\ UNCHANGED <<chat, handler, memory>>

\* DecisionAgent.plan_execution on the analysis, the caller having attached
\* the file paths to it
PlanExecution ==
  /\ pc = "analyzed"
  /\ intent_data' = [filePaths |-> FilePaths(file_count)] @@ result
  /\ \E planned \in {plan_execution(intent_data')} :
       /\ execution_plan' = planned.plan
       /\ pc' = IF planned.raised THEN "raised" ELSE "planned"
  /\ UNCHANGED <<message, file_count, result, scored, results, response,
                 validation>>
  /\ UNCHANGED <<chat, handler, memory>>

\* DecisionAgent._calculate_confidence called with a task type of the
\* caller's choice
CalculateConfidence ==
  /\ pc = "request"
  /\ \E task_type \in TaskType :
       scored' =
         [task_type |-> task_type,
          confidence |-> _calculate_confidence(message, file_count, task_type)]
  /\ pc' = "scored"
  /\ UNCHANGED <<message, file_count, result, intent_data, execution_plan,
                 results, response, validation>>
  /\ UNCHANGED <<chat, handler, memory>>

\* execute_task, batch branch, up to the plan: the posted prompt is planned
\* into steps; an exception of the planner answers the request with a failure
ExecuteTask ==
  /\ pc = "request"
  /\ intent_data' = [taskType |-> BATCH_IMAGE_GENERATION,
                      prompt |-> message,
                      filePaths |-> FilePaths(file_count),
                      fileCount |-> file_count]
  /\ \E planned \in {plan_execution(intent_data')} :
       /\ execution_plan' = planned.plan
       /\ pc' = IF planned.raised THEN "done" ELSE "executing"
       /\ response' = IF planned.raised
                      THEN [success |-> FALSE, error |-> "IndexError"]
                      ELSE response
  /\ UNCHANGED <<message, file_count, result, scored, results, validation>>
  /\ UNCHANGED <<chat, handler, memory>>

\* GenerateStep answering a failed step with the images generated so far
GenerateStepAnswersPartial ==
  /\ pc = "executing"
  /\ Len(results) < Len(execution_plan)
  /\ \E step \in {execution_plan[Len(results) + 1]}, generated \in BOOLEAN :
       IF generated
       THEN /\ results' =
                 Append(results,
                        [step |-> step.step,
                         prompt |-> step.parameters.prompt,
                         filename |-> [batch_scene |-> step.step]])
            /\ UNCHANGED <<pc, response>>
       ELSE /\ response' = [success |-> TRUE,
                             taskType |-> intent_data.taskType,
                             images |-> Len(results),
                             batch_details |-> results]
            /\ pc' = "done"
            /\ UNCHANGED results
  /\ UNCHANGED <<message, file_count, result, intent_data, execution_plan,
                 scored, validation>>
  /\ UNCHANGED <<chat, handler, memory>>

\* execute_task, one turn of the loop over the plan: the image generator is
\* called with the step's prompt; its image is saved and recorded, or its
\* exception ends the request with a failure
GenerateStep ==
  /\ pc = "executing"
  /\ Len(results) < Len(execution_plan)
  /\ \E step \in {execution_plan[Len(results) + 1]}, generated \in BOOLEAN :
       IF generated
       THEN /\ results' =
                 Append(results,
                        [step |-> step.step,
                         prompt |-> step.parameters.prompt,
                         filename |-> [batch_scene |-> step.step]])
            /\ UNCHANGED <<pc, response>>
       ELSE /\ response' = [success |-> FALSE, error |-> "GeneratorError"]
            /\ pc' = "done"
            /\ UNCHANGED results
  /\ UNCHANGED <<message, file_count, result, intent_data, execution_plan,
                 scored, validation>>
  /\ UNCHANGED <<chat, handler, memory>>

\* FinishTask with an error when no image was generated
FinishTaskNeedsImages ==
  /\ pc = "executing"
  /\ Len(results) = Len(execution_plan)
  /\ response' = IF results = <<>>
                  THEN [success |-> FALSE, error |-> "ValueError"]
                  ELSE [success |-> TRUE,
                        taskType |-> intent_data.taskType,
                        images |-> Len(results),
                        batch_details |-> results]
  /\ pc' = "done"
  /\ UNCHANGED <<message, file_count, result, intent_data, execution_plan,
                 scored, results, validation>>
  /\ UNCHANGED <<chat, handler, memory>>

\* execute_task, after the loop: the request is answered with the images
FinishTask ==
  /\ pc = "executing"
  /\ Len(results) = Len(execution_plan)
  /\ response' = [success |-> TRUE,
                  taskType |-> intent_data.taskType,
                  images |-> Len(results),
                  batch_details |-> results]
  /\ pc' = "done"
  /\ UNCHANGED <<message, file_count, result, intent_data, execution_plan,
                 scored, results, validation>>
  /\ UNCHANGED <<chat, handler, memory>>

Next ==
  \/ AnalyzeIntent
  \/ PlanExecution
  \/ CalculateConfidence
  \/ ExecuteTask
  \/ GenerateStep
  \/ FinishTask

Spec == Init /\ [][Next]_vars

-----------------------------------------------------------------------------
(* The parameter extractor on messages that speak of durations, sizes and   *)
(* styles: the request is analysed and planned.                             *)

ParamInit ==
  /\ message \in DurationMessages \cup SizeMessages
  /\ file_count \in 0..MaxFiles
  /\ Fresh
  /\ DefaultMemory

ParamNext ==
  \/ AnalyzeIntent
  \/ PlanExecution

ParamSpec == ParamInit /\ [][ParamNext]_vars

-----------------------------------------------------------------------------
(* The prompt extractor on messages made of instruction words.              *)

PromptInit ==
  /\ message \in InstructionMessages
  /\ file_count \in 0..MaxFiles
  /\ Fresh
  /\ DefaultMemory

PromptNext == AnalyzeIntent

PromptSpec == PromptInit /\ [][PromptNext]_vars

-----------------------------------------------------------------------------
(* The input validator on messages of every length around its limits.       *)

ValidateInit ==
  /\ message \in ValidatedMessages
  /\ file_count \in 0..MaxFiles
  /\ Fresh
  /\ DefaultMemory

\* DecisionAgent.validate_input called with a task type of the caller's choice
ValidateInput ==
  /\ pc = "request"
  /\ \E task_type \in TaskType :
       validation' =
         [task_type |-> task_type,
          outcome |-> validate_input(task_type, message, file_count)]
  /\ pc' = "validated"
  /\ UNCHANGED <<message, file_count, result, intent_data, execution_plan,
                 scored, results, response>>
  /\ UNCHANGED <<chat, handler, memory>>

ValidateNext == ValidateInput

ValidateSpec == ValidateInit /\ [][ValidateNext]_vars

-----------------------------------------------------------------------------
(* The classifier and the validator on one request: the request is          *)
(* analysed and the task type chosen for it is validated.                   *)

CheckedInit ==
  /\ message \in TypedMessages(MaxFrags) \cup ValidatedMessages
  /\ file_count \in 0..MaxFiles
  /\ Fresh
  /\ DefaultMemory

\* DecisionAgent.validate_input called with the task type of the analysis
ValidateIntent ==
  /\ pc = "analyzed"
  /\ validation' =
       [task_type |-> result.taskType,
        outcome |-> validate_input(result.taskType, message, file_count)]
  /\ pc' = "validated"
  /\ UNCHANGED <<message, file_count, result, intent_data, execution_plan,
                 scored, results, response>>
  /\ UNCHANGED <<chat, handler, memory>>

CheckedNext ==
  \/ AnalyzeIntent
  \/ ValidateIntent

CheckedSpec == CheckedInit /\ [][CheckedNext]_vars

-----------------------------------------------------------------------------
(* The intent endpoint: one request posted to /api/analyze_intent.          *)

ApiInit ==
  /\ message \in ApiMessages(MaxFrags)
  /\ file_count \in 0..MaxFiles
  /\ Fresh
  /\ DefaultMemory

\* analyze_intent of app.py: the chat engine is asked, its reply is searched
\* for a JSON object, the named files are saved and the dict is answered; an
\* exception on the way is answered with status 500
AnalyzeIntentApi ==
  /\ pc = "request"
  /\ \E reply \in Replies, named \in SUBSET (1..file_count) :
       /\ chat' = reply
       /\ response' = IntentAnswer(reply, message, file_count,
                                   SavedPaths(file_count, named))
  /\ pc' = "answered"
  /\ UNCHANGED <<message, file_count, result, intent_data, execution_plan,
                 scored, results, validation>>
  /\ UNCHANGED <<handler, memory>>

ApiNext == AnalyzeIntentApi

ApiSpec == ApiInit /\ [][ApiNext]_vars

-----------------------------------------------------------------------------
(* The error handler: errors are handled one after the other and retry      *)
(* strategies are asked for.                                                *)

ErrorInit ==
  /\ message = <<>>
  /\ file_count = 0
  /\ Fresh
  /\ DefaultMemory

\* ErrorHandler.handle_error(error), without a context
HandleError ==
  /\ Len(error_history) < MaxErrors
  /\ \E error \in Errors :
       \E error_info \in {handle_error(error, EmptyDict)} :
         /\ error_history' = Append(error_history, error_info)
         /\ handled' = [error |-> error, error_info |-> error_info]
  /\ UNCHANGED <<request, strategy, memory>>

\* ErrorHandler.get_retry_strategy called with an error type of the
\* caller's choice
GetRetryStrategy ==
  /\ \E error_type \in ErrorType :
       strategy' = [error_type |-> error_type,
                    policy |-> get_retry_strategy(error_type)]
  /\ UNCHANGED <<request, error_history, handled, memory>>

ErrorNext ==
  \/ HandleError
  \/ GetRetryStrategy

ErrorSpec == ErrorInit /\ [][ErrorNext]_vars

-----------------------------------------------------------------------------
(* The memory manager: conversations are added to sessions and histories    *)
(* are read.  The manager starts on no memory.json or on one whose web      *)
(* session is one record short of the limit.                                *)

MemoryInit ==
  /\ message = <<>>
  /\ file_count = 0
  /\ Fresh
  /\ \E n \in {0, MaxHistory - 1} :
       conversations = IF n = 0 THEN EmptyDict
                       ELSE [s \in {"web"} |-> Loaded(n)]
  /\ memory_file = conversations

\* MemoryManager.add_conversation(session_id, user_input, response): the
\* record is appended, the log is cut to its limit and the memory is saved;
\* a failure to write memory.json is logged and leaves the file as it was
AddConversation ==
  /\ clock < MaxAppends
  /\ clock' = clock + 1
  /\ \E session_id \in Sessions \ {"none"},
        user_input \in {<<"mao">>, <<"gou">>} :
       conversations' = add_conversation(conversations, session_id,
                                         user_input, "done", EmptyDict, clock')
  /\ \E written \in BOOLEAN :
       memory_file' = IF written THEN conversations' ELSE memory_file
  /\ UNCHANGED <<request, handler, history>>

\* MemoryManager.get_conversation_history(session_id, limit)
GetConversationHistory ==
  /\ \E session_id \in Sessions, limit \in 0..MaxLimit :
       history' =
         [session_id |-> session_id,
          limit |-> limit,
          records |-> get_conversation_history(conversations, session_id,
                                               limit)]
  /\ UNCHANGED <<request, handler, conversations, memory_file, clock>>

MemoryNext ==
  \/ AddConversation
  \/ GetConversationHistory

MemorySpec == MemoryInit /\ [][MemoryNext]_vars

-----------------------------------------------------------------------------
(* What the claims speak of.                                                *)

\* analyze_intent has returned: result holds its dict
Analyzed == pc \in {"analyzed", "planned", "raised"}

\* plan_execution has been called on intent_data
PlanCalled == pc \in {"planned", "raised", "executing", "done"}

\* _parse_scenes raised inside plan_execution
ParserRaised ==
  \/ pc = "raised"
  \/ pc = "done" /\ ~response.success /\ response.error = "IndexError"

\* a video, image generation, transform, interpolation keyword occurs in the
\* case-folded message
VideoWord(msg) == AnyIn(keywords.video_gen, lower(msg))
ImageWord(msg) == AnyIn(keywords.image_gen, lower(msg))
TransformWord(msg) == AnyIn(keywords.image_transform, lower(msg))
InterpolationWord(msg) == AnyIn(keywords.interpolation, lower(msg))

\* a batch-count marker, a scene-label marker occurs in the message
BatchMarked(msg) == AnyIn(batch_keywords, lower(msg))
SceneMarked(msg) == AnyIn(scene_keywords, msg)

\* the styles of scene label that occur in the prompt
MarkerStyles(s) ==
  {p \in 1..4 : \E i \in 1..Len(s) : MarkerLen(s, i, p) > 0}

RECURSIVE NextMarker(_, _, _)
\* the first position from i on where a label of style p stands, or the end
NextMarker(s, p, i) ==
  IF i > Len(s) \/ MarkerLen(s, i, p) > 0 THEN i ELSE NextMarker(s, p, i + 1)

RECURSIVE Segments(_, _, _)
\* the trimmed texts that lie between a label of style p and the next label
\* or the end of the prompt, from position i on
Segments(s, p, i) ==
  IF NextMarker(s, p, i) > Len(s) THEN <<>>
  ELSE <<strip(SubSeq(s,
                      NextMarker(s, p, i) + MarkerLen(s, NextMarker(s, p, i), p),
                      NextMarker(s, p, NextMarker(s, p, i) + 1) - 1))>>
       \o Segments(s, p, NextMarker(s, p, i) + 1)

\* the segments of a prompt whose labels are of one style
LabelledSegments(s) == Segments(s, CHOOSE p \in MarkerStyles(s) : TRUE, 1)

\* the prompt handed to the planner is segmented by labels of one style into
\* one to four segments, none of them blank
WellLabelled ==
  /\ PlanCalled
  /\ intent_data.taskType = BATCH_IMAGE_GENERATION
  /\ Cardinality(MarkerStyles(intent_data.prompt)) = 1
  /\ Len(LabelledSegments(intent_data.prompt)) \in 1..4
  /\ \A k \in 1..Len(LabelledSegments(intent_data.prompt)) :
       LabelledSegments(intent_data.prompt)[k] # <<>>

\* the prompts of the steps of the plan, in order
PlanPrompts ==
  [i \in 1..Len(execution_plan) |-> execution_plan[i].parameters.prompt]

-----------------------------------------------------------------------------
(* The claims.                                                              *)

\* C1: for a prompt segmented by explicit scene labels of either numeral
\* style, the scene splitter returns, in order, the full trimmed text of
\* every segment between a label and the next label or the end of the prompt
\* (seen in the prompts of the planned steps).
C1_ScenesAreTheSegments ==
  WellLabelled =>
    /\ ~ParserRaised
    /\ PlanPrompts = LabelledSegments(intent_data.prompt)

\* C2: a batch plan for a prompt of k labelled, non-blank segments, k in 1..4,
\* has exactly k steps, numbered 1..k in order, each of action image_to_image
\* and each with total_batches = k.
C2_OneStepPerSegment ==
  WellLabelled =>
    /\ ~ParserRaised
    /\ Len(execution_plan) = Len(LabelledSegments(intent_data.prompt))
    /\ \A i \in 1..Len(execution_plan) :
         /\ execution_plan[i].step = i
         /\ execution_plan[i].action = IMAGE_TO_IMAGE
         /\ execution_plan[i].parameters.total_batches
              = Len(LabelledSegments(intent_data.prompt))

\* C3: the batch rule comes first: with one attachment a batch-count marker
\* or a scene-label marker gives batch_image_generation whatever other
\* keywords the message holds, and with any other attachment count the
\* classifier never gives batch_image_generation.
C3_BatchRuleFirst ==
  Analyzed =>
    /\ (file_count = 1 /\ (BatchMarked(message) \/ SceneMarked(message)))
         => result.taskType = BATCH_IMAGE_GENERATION
    /\ file_count # 1 => result.taskType # BATCH_IMAGE_GENERATION

\* C3 witness: one attachment, a batch-count marker together with a video
\* keyword, classified as batch
C3_Witness ==
  /\ Analyzed
  /\ file_count = 1
  /\ BatchMarked(message)
  /\ VideoWord(message)
  /\ result.taskType = BATCH_IMAGE_GENERATION

\* C4: with no attachment the classifier gives text_to_video when a video
\* keyword occurs in the case-folded message and text_to_image otherwise;
\* batch and scene markers play no part.
C4_NoAttachment ==
  (Analyzed /\ file_count = 0) =>
    result.taskType =
      IF VideoWord(message) THEN TEXT_TO_VIDEO ELSE TEXT_TO_IMAGE

\* C4 witness: no attachment, a batch-count marker and a video keyword in
\* upper case, classified as text_to_video
C4_Witness ==
  /\ Analyzed
  /\ file_count = 0
  /\ BatchMarked(message)
  /\ VideoWord(message)
  /\ ~AnyIn(keywords.video_gen, message)
  /\ result.taskType = TEXT_TO_VIDEO

C6_TwoOrMoreAttachments ==
  Analyzed =>
    /\ result.taskType \in TaskType
    /\ file_count = 2 =>
         result.taskType =
           IF \/ InterpolationWord(message)
              \/ Contains(message, <<"shou">>)
              \/ Contains(message, <<"wei">>)
           THEN FIRST_TO_LAST_FRAME ELSE IMAGE_TO_IMAGE
    /\ file_count > 2 => result.taskType = IMAGE_TO_IMAGE

\* C6 witness: two attachments, the character shou and a video keyword but no
\* interpolation keyword, classified as first_to_last_frame
C6_Witness ==
  /\ Analyzed
  /\ file_count = 2
  /\ Contains(message, <<"shou">>)
  /\ ~InterpolationWord(message)
  /\ VideoWord(message)
  /\ result.taskType = FIRST_TO_LAST_FRAME

\* C7: every confidence the scorer returns, for any message, attachment count
\* and task type, lies in [0.0, 1.0] (0..10 tenths), and is at least the base
\* value 0.5.
C7_ConfidenceInRange ==
  /\ Analyzed => (result.confidence \in 0..10 /\ result.confidence >= 5)
  /\ pc = "scored" => (scored.confidence \in 0..10 /\ scored.confidence >= 5)

\* C7 witness: a batch score whose three bonuses all apply, so that the sum
\* 0.5 + 0.4 + 0.3 + 0.2 is capped at 1.0
C7_Witness ==
  /\ pc = "scored"
  /\ scored.task_type = BATCH_IMAGE_GENERATION
  /\ AnyIn(confidence_batch_keywords, lower(message))
  /\ SceneMarked(message)
  /\ file_count = 1
  /\ scored.confidence = 10

\* C8: the scorer matches keywords as the classifier does, on the case-folded
\* message: every image_to_video result has confidence 0.8, and so has every
\* text_to_image result whose message holds an image generation keyword in
\* any letter case.
C8_BonusFollowsClassifier ==
  Analyzed =>
    /\ result.taskType = IMAGE_TO_VIDEO => result.confidence = 8
    /\ (result.taskType = TEXT_TO_IMAGE /\ ImageWord(message))
         => result.confidence = 8

\* C9: the confidence of a batch result is min(1.0, 0.5 + 0.4 [batch-count
\* marker matched, as in rule 1 of the classifier] + 0.3 [scene-label marker
\* matched] + 0.2 [one attachment]); so every batch result of analyze_intent
\* has confidence 1.0.
C9_BatchConfidence ==
  (Analyzed /\ result.taskType = BATCH_IMAGE_GENERATION) =>
    /\ result.confidence =
         min(10, 5 + (IF BatchMarked(message) THEN 4 ELSE 0)
                   + (IF SceneMarked(message) THEN 3 ELSE 0)
                   + (IF file_count = 1 THEN 2 ELSE 0))
    /\ result.confidence = 10

\* C10: image_to_image and text_to_video get no bonus: their confidence is
\* exactly 0.5 for every message and every attachment count.
C10_NoBonus ==
  /\ (pc = "scored" /\ scored.task_type \in {IMAGE_TO_IMAGE, TEXT_TO_VIDEO})
       => scored.confidence = 5
  /\ (Analyzed /\ result.taskType \in {IMAGE_TO_IMAGE, TEXT_TO_VIDEO})
       => result.confidence = 5

\* C10 witness: text_to_video scored at 0.5 for a message that holds a video
\* keyword as typed
C10_Witness ==
  /\ pc = "scored"
  /\ scored.task_type = TEXT_TO_VIDEO
  /\ AnyIn(keywords.video_gen, message)
  /\ file_count = 0
  /\ scored.confidence = 5

\* the text after the digits that start at position i, leading space dropped
AfterNumber(s, i) ==
  lstrip(SubSeq(s, i + DigitsFrom(s, i), Len(s)))

\* digits followed by miao, second or seconds in any letter case stand at i
DurationStands(s, i) ==
  /\ s[i] \in DOMAIN DigitValue
  /\ \/ StartsAt(AfterNumber(s, i), <<"miao">>, 1)
     \/ StartsAt(lower(AfterNumber(s, i)), <<"s", "e", "c", "o", "n", "d">>, 1)

\* C11: the duration is always in 1..10: the leftmost digits followed by
\* miao / second / seconds in any letter case, as an integer limited to 1..10
\* (0 gives 1, more than 10 gives 10); 5 when no such digits stand in the
\* message.
C11_DurationClamped ==
  Analyzed =>
    /\ result.parameters.duration \in 1..10
    /\ (\A i \in 1..Len(message) : ~DurationStands(message, i))
         => result.parameters.duration = 5
    /\ \A i \in 1..Len(message) :
         (/\ DurationStands(message, i)
          /\ \A j \in 1..(i - 1) : ~DurationStands(message, j))
         => result.parameters.duration
              = (IF NumberAt(message, i) < 1 THEN 1
                 ELSE IF NumberAt(message, i) > 10 THEN 10
                 ELSE NumberAt(message, i))

\* C11 witness: the leftmost duration is 12 SECONDS, after a number that no
\* unit follows and before a second duration of 3; the duration is 10
C11_Witness ==
  /\ Analyzed
  /\ message = <<"5", "sp", "1", "2", "sp", "S", "E", "C", "O", "N", "D", "S",
                 "3", "miao">>
  /\ result.parameters.duration = 10

\* the places <<i, u>> where a size of size_patterns[k] stands: digits from i,
\* then the separator with any white space around it, then digits from u
SizesStanding(s, k) ==
  {place \in (1..Len(s)) \X (1..Len(s)) :
     /\ s[place[1]] \in DOMAIN DigitValue
     /\ s[place[2]] \in DOMAIN DigitValue
     /\ place[2] > place[1] + DigitsFrom(s, place[1])
     /\ strip(SubSeq(s, place[1] + DigitsFrom(s, place[1]), place[2] - 1))
          \in size_separators[k]}

\* the size written at a place, as "{width}x{height}"
SizeWritten(s, place) ==
  str(NumberAt(s, place[1])) \o <<"x">> \o str(NumberAt(s, place[2]))

\* C12: the size patterns are tried in the order W x H (x or the
\* multiplication sign), W:H, W by H; the first pattern of that order that
\* stands anywhere in the message gives the size, at its leftmost place,
\* also when a later pattern stands earlier in the text; the size is written
\* "{width}x{height}"; there is no size key when no pattern stands.
C12_SizePatternOrder ==
  Analyzed =>
    /\ "size" \in DOMAIN result.parameters
         <=> \E k \in 1..3 : SizesStanding(message, k) # {}
    /\ \A k \in 1..3 :
         (/\ SizesStanding(message, k) # {}
          /\ \A j \in 1..(k - 1) : SizesStanding(message, j) = {})
         => \E place \in SizesStanding(message, k) :
              /\ \A other \in SizesStanding(message, k) : place[1] <= other[1]
              /\ result.parameters.size = SizeWritten(message, place)

\* C12 witness: 16:9 stands before 4 x 03; the size is 4x3
C12_Witness ==
  /\ Analyzed
  /\ message = <<"1", "6", ":", "9", "sp", "4", "x", "0", "3">>
  /\ result.parameters = [duration |-> 5, size |-> <<"4", "x", "3">>]

\* the rules of validate_input for each task type, in the order of the table
RulesOf(task_type) ==
  CASE task_type = BATCH_IMAGE_GENERATION ->
         <<"batch_needs_reference_image", "batch_needs_scene_description",
           "batch_needs_scene_labels">>
    [] task_type = TEXT_TO_IMAGE -> <<"text_to_image_needs_description">>
    [] task_type = IMAGE_TO_IMAGE ->
         <<"image_to_image_needs_image", "image_to_image_needs_instruction">>
    [] task_type = IMAGE_TO_VIDEO -> <<"image_to_video_needs_image">>
    [] task_type = FIRST_TO_LAST_FRAME ->
         <<"first_to_last_frame_needs_two_images">>
    [] task_type = TEXT_TO_VIDEO -> <<"text_to_video_needs_description">>
    [] OTHER -> <<>>

\* the condition that a rule requires
Required(rule, msg, fc) ==
  CASE rule = "batch_needs_reference_image" -> fc >= 1
    [] rule = "batch_needs_scene_description" -> Len(strip(msg)) >= 10
    [] rule = "batch_needs_scene_labels" -> SceneMarked(msg)
    [] rule = "text_to_image_needs_description" -> Len(strip(msg)) >= 3
    [] rule = "image_to_image_needs_image" -> fc >= 1
    [] rule = "image_to_image_needs_instruction" -> Len(msg) > 0
    [] rule = "image_to_video_needs_image" -> fc >= 1
    [] rule = "first_to_last_frame_needs_two_images" -> fc >= 2
    [] rule = "text_to_video_needs_description" -> Len(strip(msg)) >= 5

\* validate_input has returned: validation holds its dict
Validated == pc = "validated"

\* C13: every rule of the task type is evaluated, none is skipped after a
\* failure: the errors are the failing rules, one message each, in rule order;
\* valid is true exactly when there is no error; batch_image_generation with
\* the empty message and no attachment is invalid with 3 distinct errors.
C13_AllRulesEvaluated ==
  Validated =>
    /\ validation.outcome.errors
         = SelectSeq(RulesOf(validation.task_type),
                     LAMBDA rule : ~Required(rule, message, file_count))
    /\ validation.outcome.valid <=> validation.outcome.errors = <<>>
    /\ (/\ validation.task_type = BATCH_IMAGE_GENERATION
        /\ message = <<>>
        /\ file_count = 0)
         => /\ ~validation.outcome.valid
            /\ Len(validation.outcome.errors) = 3
            /\ Cardinality({validation.outcome.errors[i] : i \in 1..3}) = 3

\* C13 witness: batch_image_generation, the empty message, no attachment:
\* three errors
C13_Witness ==
  /\ Validated
  /\ validation.task_type = BATCH_IMAGE_GENERATION
  /\ message = <<>>
  /\ file_count = 0
  /\ Len(validation.outcome.errors) = 3
  /\ ~validation.outcome.valid

\* C14: an error is reported exactly when a required condition of the task
\* type fails: batch needs a file, 10 characters after trimming and a scene
\* label; text_to_image 3 characters after trimming; image_to_image a file
\* and a non-empty message; image_to_video a file; first_to_last_frame two
\* files; text_to_video 5 characters after trimming; nothing else is an error.
C14_ErrorsAreFailedRequirements ==
  Validated =>
    {validation.outcome.errors[i] : i \in 1..Len(validation.outcome.errors)}
      = {RulesOf(validation.task_type)[i] :
           i \in {j \in 1..Len(RulesOf(validation.task_type)) :
                    ~Required(RulesOf(validation.task_type)[j],
                              message, file_count)}}

\* C14 witness: text_to_video, a message of 7 characters as typed and of 5
\* once trimmed, no error
C14_Witness ==
  /\ Validated
  /\ validation.task_type = TEXT_TO_VIDEO
  /\ Len(strip(message)) = 5
  /\ Len(message) = 7
  /\ validation.outcome.errors = <<>>

\* C15: for every task type but batch, the plan is exactly one step, with
\* step 1, the task type as action, and as parameters the prompt, the file
\* paths and every extracted parameter (duration, size, style) unchanged.
C15_SingleStepPlan ==
  (pc = "planned" /\ result.taskType # BATCH_IMAGE_GENERATION) =>
    /\ Len(execution_plan) = 1
    /\ execution_plan[1].step = 1
    /\ execution_plan[1].action = result.taskType
    /\ DOMAIN execution_plan[1].parameters
         = {"prompt", "filePaths"} \cup DOMAIN result.parameters
    /\ execution_plan[1].parameters.prompt = result.prompt
    /\ execution_plan[1].parameters.filePaths = FilePaths(file_count)
    /\ \A key \in DOMAIN result.parameters :
         execution_plan[1].parameters[key] = result.parameters[key]

\* C15 witness: an image_to_image plan of two files that carries a duration,
\* a size and a style
C15_Witness ==
  /\ pc = "planned"
  /\ result.taskType = IMAGE_TO_IMAGE
  /\ file_count = 2
  /\ Len(execution_plan) = 1
  /\ DOMAIN execution_plan[1].parameters
       = {"prompt", "filePaths", "duration", "size", "style"}
  /\ execution_plan[1].parameters.duration = 7
  /\ execution_plan[1].parameters.size = <<"1", "6", "x", "9">>
  /\ execution_plan[1].parameters.style = "cinematic"
  /\ execution_plan[1].parameters.filePaths = <<1, 2>>

\* a batch plan has been made of intent_data and the splitter did not raise
BatchPlanned ==
  /\ PlanCalled
  /\ intent_data.taskType = BATCH_IMAGE_GENERATION
  /\ ~ParserRaised

\* C16: every batch plan has N <= 4 steps; its i-th step has step and
\* batch_index i, action image_to_image, is_batch true, the i-th scene of the
\* splitter as prompt and total_batches N; all steps carry the same ordered
\* list of file paths; the step numbers are 1..N.
C16_BatchPlanShape ==
  BatchPlanned =>
    /\ Len(execution_plan) <= 4
    /\ PlanPrompts = _parse_scenes(intent_data.prompt).scenes
    /\ \A i \in 1..Len(execution_plan) :
         /\ execution_plan[i].step = i
         /\ execution_plan[i].action = IMAGE_TO_IMAGE
         /\ execution_plan[i].parameters.batch_index = i
         /\ execution_plan[i].parameters.is_batch
         /\ execution_plan[i].parameters.total_batches = Len(execution_plan)
         /\ execution_plan[i].parameters.filePaths = intent_data.filePaths

\* C16 witness: a prompt of more than four scenes labelled with digits,
\* planned into four steps
C16_Witness ==
  /\ BatchPlanned
  /\ Len(findall(intent_data.prompt, 2, 1)) > 4
  /\ Len(execution_plan) = 4
  /\ execution_plan[4].parameters.prompt = <<"mao", "4">>
  /\ execution_plan[4].parameters.total_batches = 4

C18_SplitterNeverRaises ==
  (PlanCalled /\ intent_data.taskType = BATCH_IMAGE_GENERATION) =>
    /\ ~ParserRaised
    /\ \A i \in 1..Len(PlanPrompts) : strip(PlanPrompts[i]) # <<>>

\* the scenes of the marker segmentation: the segments that are not blank, by
\* the labels of the first style of scene_patterns that occurs in the prompt
MarkerScenes(s) ==
  IF MarkerStyles(s) = {} THEN <<>>
  ELSE SelectSeq(Segments(s, CHOOSE p \in MarkerStyles(s) :
                               \A q \in MarkerStyles(s) : p <= q, 1),
                 LAMBDA t : t # <<>>)

\* the lines of the prompt, trimmed, the blank ones left out
Paragraphs(s) ==
  SelectSeq([i \in 1..Len(split_sep(s, "nl")) |-> strip(split_sep(s, "nl")[i])],
            LAMBDA l : l # <<>>)

\* the scenes of the paragraph fallback: with two paragraphs or more, those
\* after the first, four at most; none with fewer
FallbackScenes(s) ==
  IF Len(Paragraphs(s)) >= 2
  THEN SubSeq(Paragraphs(s), 2, min(5, Len(Paragraphs(s))))
  ELSE <<>>

\* C19: the paragraph fallback is used exactly when the marker segmentation
\* yields no scene that is not blank: the scenes are then the trimmed
\* non-blank lines of the prompt after the first, four at most, in order, and
\* none when there are fewer than two such lines; otherwise the scenes are
\* those of the marker segmentation.
C19_FallbackWhenNoMarkedScene ==
  (PlanCalled /\ intent_data.taskType = BATCH_IMAGE_GENERATION) =>
    /\ ~ParserRaised
    /\ PlanPrompts =
         (IF MarkerScenes(intent_data.prompt) = <<>>
          THEN FallbackScenes(intent_data.prompt)
          ELSE SubSeq(MarkerScenes(intent_data.prompt), 1,
                      min(4, Len(MarkerScenes(intent_data.prompt)))))

RECURSIVE MarkWord(_, _, _, _)
\* the positions of s removed so far, and those of the occurrences of w that
\* stand in s itself from position i on, clear of what was removed before
MarkWord(s, w, removed, i) ==
  IF i > Len(s) THEN removed
  ELSE IF StartsAt(s, w, i) /\ (i..(i + Len(w) - 1)) \cap removed = {}
  THEN MarkWord(s, w, removed \cup (i..(i + Len(w) - 1)), i + Len(w))
  ELSE MarkWord(s, w, removed, i + 1)

RECURSIVE MarkWords(_, _, _)
\* the positions of s removed by a single pass over the words, in list order,
\* each word being matched against the original message only
MarkWords(s, words, removed) ==
  IF words = <<>> THEN removed
  ELSE MarkWords(s, Tail(words), MarkWord(s, Head(words), removed, 1))

RECURSIVE Kept(_, _, _)
\* the characters of s from position i on that stand outside removed
Kept(s, removed, i) ==
  IF i > Len(s) THEN <<>>
  ELSE (IF i \in removed THEN <<>> ELSE <<s[i]>>) \o Kept(s, removed, i + 1)

\* C20: the instruction words are removed in a single pass in list order and
\* a removal brings back no word for matching: each word is matched against
\* the occurrences of the original message only, so text formed by joining
\* what a removal leaves is never removed as another instruction word; then
\* runs of white space become one space and the result is trimmed.
C20_SinglePassRemoval ==
  Analyzed =>
    result.prompt
      = strip(join(<<"sp">>,
                   split(Kept(message,
                              MarkWords(message, instruction_words, {}), 1))))

\* the sentences of the reasoning of the result
Reasons ==
  {result.reasoning.reasons[i] : i \in 1..Len(result.reasoning.reasons)}

\* C21: the reasoning names the chosen task type and the attachments: with
\* no file it holds the sentence "no file uploaded" (and the task type is
\* text_to_image or text_to_video); with files it holds "uploaded N files"
\* with the actual count and never "no file uploaded"; a batch result also
\* holds the batch-keyword reason.
C21_ReasoningNamesTypeAndFiles ==
  Analyzed =>
    /\ result.reasoning.task_type = result.taskType
    /\ file_count = 0 =>
         /\ [text |-> "no_file_uploaded"] \in Reasons
         /\ result.taskType \in {TEXT_TO_IMAGE, TEXT_TO_VIDEO}
    /\ file_count >= 1 =>
         /\ [text |-> "files_uploaded", n |-> file_count] \in Reasons
         /\ [text |-> "no_file_uploaded"] \notin Reasons
         /\ \A r \in Reasons : r.text = "files_uploaded" => r.n = file_count
    /\ result.taskType = BATCH_IMAGE_GENERATION =>
         [text |-> "has_batch_keyword"] \in Reasons

\* C21 witness: a batch result of one file whose reasoning holds the count
\* and the batch-keyword reason
C21_Witness ==
  /\ Analyzed
  /\ file_count = 1
  /\ result.taskType = BATCH_IMAGE_GENERATION
  /\ result.reasoning.task_type = BATCH_IMAGE_GENERATION
  /\ [text |-> "files_uploaded", n |-> 1] \in Reasons
  /\ [text |-> "has_batch_keyword"] \in Reasons

-----------------------------------------------------------------------------
(* The error handler in the words of the claims.                            *)

\* handle_error has returned: handled holds the error and its dict
Handled == DOMAIN handled # {}

\* get_retry_strategy has returned: strategy holds the type and its policy
Asked == DOMAIN strategy # {}

\* the kinds in the order of their priority, unknown apart
Priority == <<TIMEOUT, RATE_LIMIT, AUTH_ERROR, API_ERROR>>

\* the patterns of a kind
Patterns(kind) ==
  CASE kind = TIMEOUT -> {<<"t", "i", "m", "e", "o", "u", "t">>}
    [] kind = RATE_LIMIT ->
         {<<"r", "a", "t", "e", "sp", "l", "i", "m", "i", "t">>,
          <<"4", "2", "9">>}
    [] kind = AUTH_ERROR ->
         {<<"a", "u", "t", "h">>, <<"4", "0", "1">>, <<"4", "0", "3">>}
    [] kind = API_ERROR -> {<<"a", "p", "i">>}

\* the ranks of the kinds of which the lower-cased message holds a pattern
Hits(msg) ==
  {i \in 1..Len(Priority) :
     \E w \in Patterns(Priority[i]) : Contains(lower(msg), w)}

\* the kind of a message: the matched kind of the highest priority
KindOfMessage(msg) ==
  IF Hits(msg) = {} THEN UNKNOWN
  ELSE Priority[CHOOSE i \in Hits(msg) : \A k \in Hits(msg) : i <= k]

\* the kind of an error: a TimeoutError is a timeout whatever its message
KindOf(error) ==
  IF error.timeout_error THEN TIMEOUT ELSE KindOfMessage(error.message)

\* a policy has the four settings and its least wait is not above its most
WellFormedPolicy(policy) ==
  /\ {"max_attempts", "multiplier", "min_wait", "max_wait"} \subseteq
       DOMAIN policy
  /\ policy.min_wait <= policy.max_wait

\* C22: auth errors are non-retryable: every error classified as auth_error
\* is recorded by handle_error with should_retry false, whatever was handled
\* before it, and the retry strategy of auth_error has max_attempts 0.
C22_AuthNeverRetried ==
  /\ \A i \in 1..Len(error_history) :
       error_history[i].type = AUTH_ERROR =>
         /\ error_history[i].should_retry = FALSE
         /\ get_retry_strategy(error_history[i].type).max_attempts = 0
  /\ (Handled /\ handled.error_info.type = AUTH_ERROR) =>
       /\ handled.error_info.should_retry = FALSE
       /\ error_history[Len(error_history)] = handled.error_info
  /\ (Asked /\ strategy.error_type = AUTH_ERROR) =>
       strategy.policy.max_attempts = 0

\* C22 witness: an auth error handled after a retryable timeout, and the
\* strategy of auth_error asked for
C22_Witness ==
  /\ Len(error_history) >= 2
  /\ error_history[1].type = TIMEOUT
  /\ error_history[1].should_retry
  /\ error_history[2].type = AUTH_ERROR
  /\ ~error_history[2].should_retry
  /\ Asked
  /\ strategy.error_type = AUTH_ERROR

\* C23 as stated: the kind of every handled error is the kind of its
\* lower-cased message alone, by the priority timeout > rate_limit >
\* auth_error > api_error > unknown, and every policy is well formed.
C23_KindByMessageOnly ==
  /\ Handled =>
       handled.error_info.type = KindOfMessage(handled.error.message)
  /\ Asked => WellFormedPolicy(strategy.policy)

\* C23 amended: every handled error gets exactly one kind of ErrorType: a
\* TimeoutError is a timeout whatever its message; any other error gets the
\* kind of its lower-cased message by the priority timeout > rate_limit >
\* auth_error > api_error > unknown; every policy has max_attempts,
\* multiplier, min_wait and max_wait with min_wait <= max_wait.
C23_KindByClassOrMessage ==
  /\ Handled =>
       /\ handled.error_info.type \in ErrorType
       /\ handled.error_info.type = KindOf(handled.error)
  /\ \A i \in 1..Len(error_history) : error_history[i].type \in ErrorType
  /\ Asked =>
       /\ strategy.error_type \in ErrorType
       /\ WellFormedPolicy(strategy.policy)

\* C23 witness: a TimeoutError whose message only matches the pattern of
\* api_error is handled as a timeout, after an error whose message matches
\* two kinds got the higher, and a policy was asked for
C23_Witness ==
  /\ Handled
  /\ handled.error.timeout_error
  /\ KindOfMessage(handled.error.message) = API_ERROR
  /\ handled.error_info.type = TIMEOUT
  /\ Len(error_history) >= 2
  /\ Hits(error_history[1].message) = {2, 4}
  /\ error_history[1].type = RATE_LIMIT
  /\ Asked

\* C29: the retry decision and the retry policy agree: the should_retry
\* recorded by handle_error is true exactly when get_retry_strategy of the
\* recorded type gives max_attempts > 0.
C29_RetryAgreesWithPolicy ==
  \A i \in 1..Len(error_history) :
    error_history[i].should_retry
      <=> get_retry_strategy(error_history[i].type).max_attempts > 0

-----------------------------------------------------------------------------
(* The memory manager in the words of the claims.                           *)

\* the log of a session in a dict of conversations, empty if it has none
LogOf(convs, s) == IF s \in DOMAIN convs THEN convs[s] ELSE <<>>

\* a is the start of b
Prefix(a, b) == Len(a) <= Len(b) /\ SubSeq(b, 1, Len(a)) = a

\* the last k elements of a list
Suffix(lst, k) == [i \in 1..k |-> lst[Len(lst) - k + i]]

\* the smaller of two numbers
Least(a, b) == CHOOSE n \in {a, b} : n <= a /\ n <= b

\* C24 as stated: the log is append-only: in every step every session keeps
\* its log as the start of its new log, and a call of add_conversation (a
\* step of the clock) appends one record, the newest, to one session and
\* leaves every other session's log as it was.
C24_AppendOnly ==
  [][/\ \A s \in DOMAIN conversations :
          /\ s \in DOMAIN conversations'
          /\ Prefix(conversations[s], conversations'[s])
     /\ clock' # clock =>
          \E s \in DOMAIN conversations' :
            /\ conversations'[s] # <<>>
            /\ conversations'[s][Len(conversations'[s])].timestamp = clock'
            /\ \A o \in DOMAIN conversations' \ {s} :
                 /\ o \in DOMAIN conversations
                 /\ conversations'[o] = conversations[o]]_vars

\* C24 amended: the log is append-only up to 100 records a session: a call
\* of add_conversation (a step of the clock) appends one record, the newest,
\* to one session and keeps of that session the most recent 100 records, unchanged
\* and in insertion order with the newest last (so a session that holds 100
\* records loses its oldest record); every other session's log stays as it
\* was and no session is dropped.
C24_AppendOnlyUpToLimit ==
  [][/\ clock' = clock => conversations' = conversations
     /\ clock' # clock =>
       \E s \in DOMAIN conversations' :
         /\ DOMAIN conversations' = DOMAIN conversations \cup {s}
         /\ \A o \in DOMAIN conversations' \ {s} :
              conversations'[o] = conversations[o]
         /\ \E new \in {conversations'[s]} :
              /\ new # <<>>
              /\ new[Len(new)].timestamp = clock'
              /\ \E all \in {Append(LogOf(conversations, s), new[Len(new)])} :
                   /\ Len(new) = Least(Len(all), MaxHistory)
                   /\ new = Suffix(all, Len(new))
                   /\ Len(all) <= MaxHistory
                        => Prefix(LogOf(conversations, s), new)]_vars

\* C24 witness: the web session, loaded one record short of the limit, has
\* been added to until its oldest records were dropped, and another session
\* has a log of its own
C24_Witness ==
  /\ "web" \in DOMAIN conversations
  /\ "cli" \in DOMAIN conversations
  /\ Len(conversations["web"]) = MaxHistory
  /\ conversations["web"][1].timestamp > 2 - MaxHistory
  /\ conversations["web"][MaxHistory].timestamp >= 2
  /\ conversations["cli"] # <<>>

\* C25: get_conversation_history(session_id, limit) with limit >= 0 returns
\* at most limit records: the min(limit, length) most recent records of the
\* session in insertion order, the empty list for an unknown session; it
\* leaves the conversations as they were.
C25_AtMostLimitRecords ==
  [][history' # history =>
       /\ conversations' = conversations
       /\ \E h \in {history'}, log \in {LogOf(conversations, history'.session_id)} :
            h.limit >= 0 =>
              /\ Len(h.records) <= h.limit
              /\ h.records = Suffix(log, Least(h.limit, Len(log)))]_vars

-----------------------------------------------------------------------------
(* The batch executor in the words of the claims.                           *)

\* C26: the executor runs the steps of a batch plan one after the other in
\* the planned order: each turn records the result of the next step of the
\* plan, under a file name that carries the step number, after the results
\* of all steps before it; a failed step ends the request with success
\* false and no images, no later step is run, and a request answered with
\* success has run every step.
C26_StepsInPlannedOrder ==
  [][/\ execution_plan # <<>> => execution_plan' = execution_plan
     /\ results' # results =>
          /\ pc = "executing"
          /\ Len(results) < Len(execution_plan)
          /\ \E step \in {execution_plan[Len(results) + 1]} :
               /\ step.step = Len(results) + 1
               /\ Len(results') = Len(results) + 1
               /\ SubSeq(results', 1, Len(results)) = results
               /\ results'[Len(results')].step = step.step
               /\ results'[Len(results')].prompt = step.parameters.prompt
               /\ results'[Len(results')].filename.batch_scene = step.step
     /\ (pc = "executing" /\ pc' = "done") =>
          IF Len(results) < Len(execution_plan)
          THEN /\ results' = results
               /\ response'.success = FALSE
               /\ DOMAIN response' \cap {"images", "batch_details"} = {}
          ELSE /\ response'.success
               /\ response'.batch_details = results
     /\ pc = "done" => results' = results /\ response' = response]_vars

\* C26 witness: the third step of a plan of four failed after two steps were
\* run and recorded in order, and the request was answered with a failure
C26_Witness ==
  /\ pc = "done"
  /\ Len(execution_plan) = 4
  /\ Len(results) = 2
  /\ results[1].step = 1 /\ results[1].filename.batch_scene = 1
  /\ results[2].step = 2 /\ results[2].filename.batch_scene = 2
  /\ response.success = FALSE
  /\ response.error = "GeneratorError"

-----------------------------------------------------------------------------
(* The intent endpoint in the words of the claims.                          *)

\* /api/analyze_intent has answered
Answered == pc = "answered"

\* the chat engine gave no usable JSON: its call failed, its reply holds no
\* JSON object, or the object found in it does not parse
NoUsableJson ==
  \/ chat.raised
  \/ ~\E i, j \in 1..Len(chat.response_text) :
        i < j /\ chat.response_text[i] = "{" /\ chat.response_text[j] = "}"
  \/ ~chat.loads.ok

\* C27: whenever the chat engine gives no usable JSON answer, the request is
\* still answered, with status 200, by the classification of
\* simple_intent_analysis with filePaths and originalMessage attached.
C27_RulesWhenNoUsableJson ==
  (Answered /\ NoUsableJson) =>
    /\ response.status = 200
    /\ \E rules \in {simple_intent_analysis(message, file_count)} :
         \A k \in DOMAIN rules :
           k \in DOMAIN response.body /\ response.body[k] = rules[k]
    /\ "filePaths" \in DOMAIN response.body
    /\ response.body.originalMessage = message

-----------------------------------------------------------------------------
(* The analysis handed to the planner, in the words of the claims.          *)

\* a scene number: one of the four numerals, or decimal digits
SceneNumber(x) ==
  \/ Len(x) = 1 /\ x[1] \in {"yi", "er", "san", "si"}
  \/ /\ x # <<>>
     /\ \A k \in 1..Len(x) :
          x[k] \in {"0", "1", "2", "3", "4", "5", "6", "7", "8", "9"}

\* the text holds a scene marker that ends with the fullwidth colon: the
\* word scene and a number, or the ordinal prefix, a number and the counter
ColonMarked(s) ==
  \E i \in 1..Len(s), j \in 1..Len(s) :
    /\ i < j
    /\ s[j] = "colon"
    /\ \/ /\ s[i] = "chang"
          /\ s[i + 1] = "jing"
          /\ SceneNumber(SubSeq(s, i + 2, j - 1))
       \/ /\ s[i] = "di"
          /\ s[j - 1] = "zhang"
          /\ SceneNumber(SubSeq(s, i + 1, j - 2))

\* the lines of a text that are not blank
Lines(s) == SelectSeq(split_sep(s, "nl"), LAMBDA l : strip(l) # <<>>)

-----------------------------------------------------------------------------
(* The classifier and the validator in the words of the claims.             *)

\* the errors of the rules of validate_input on the number of attachments
AttachmentErrors ==
  {"batch_needs_reference_image", "image_to_image_needs_image",
   "image_to_video_needs_image", "first_to_last_frame_needs_two_images"}

\* the errors reported for the task type of the analysis
ReportedErrors ==
  {validation.outcome.errors[i] : i \in 1..Len(validation.outcome.errors)}

\* C30: the classifier and the validator agree on attachment counts: batch,
\* image_to_image and image_to_video are only chosen with at least one
\* attachment and first_to_last_frame only with exactly two, so validating
\* the chosen task type on the same message and count reports no error of
\* an attachment-count rule.
C30_ChosenTypeFitsAttachments ==
  /\ Analyzed =>
       /\ result.taskType \in {BATCH_IMAGE_GENERATION, IMAGE_TO_IMAGE,
                                IMAGE_TO_VIDEO} => file_count >= 1
       /\ result.taskType = FIRST_TO_LAST_FRAME => file_count = 2
  /\ (Validated /\ DOMAIN result # {}) =>
       /\ validation.task_type = result.taskType
       /\ ReportedErrors \cap AttachmentErrors = {}

\* C30 witness: a batch chosen for one attachment fails the validation, by
\* rules on the content of the message alone
C30_Witness ==
  /\ Validated
  /\ DOMAIN result # {}
  /\ file_count = 1
  /\ result.taskType = BATCH_IMAGE_GENERATION
  /\ validation.task_type = BATCH_IMAGE_GENERATION
  /\ ~validation.outcome.valid
  /\ ReportedErrors # {}
  /\ ReportedErrors \cap AttachmentErrors = {}

====
